---- MODULE Spec2Model ----
(***************************************************************************)
(* A model of lil-json (src/src/lib.rs): the JsonObject / JsonArray        *)
(* containers, the resumable serializer and the incremental parser.        *)
(*                                                                         *)
(* Characters and bytes are their code points (natural numbers).  A Rust   *)
(* &str is the sequence of its chars, a byte slice the sequence of its     *)
(* bytes.  Rust indices are 0-based: At(s, i) reads s[i].  An i64 is kept  *)
(* as a sign and a decimal magnitude (a digit sequence without leading     *)
(* zeros), so the full 64-bit range is represented exactly.                *)
(***************************************************************************)
EXTENDS Integers, Sequences, FiniteSets, TLC

VARIABLES
    under_test, \* the container the caller exercises: "object" or "array"
    obj,      \* the JsonObject under test: [fields, num_fields]
    storage,  \* what obj wraps: "array" ([JsonField; N]) or "vec" (Vec<JsonField>)
    arr,      \* the JsonArray under test: [values, num_values]
    data,     \* the byte slice the caller holds for parsing
    res,      \* what the last call returned (and the arguments it was given)
    offset,   \* a resuming caller's offset into the serialized output
    acc,      \* the bytes that caller's sinks have accepted so far; for a caller
              \* of parse_alloc / parse_alloc_escape, the escape arena it keeps
    calls,    \* serialize_resume of that caller's container, by (offset, sink size)
    pc        \* the caller's position

vars == <<under_test, obj, storage, arr, data, res, offset, acc, calls, pc>>

\* ------------------------------------------------------------------ bounds

\* capacity of the fixed storage the containers wrap
Cap == 2
\* largest finite string escape buffer handed to a parse
MaxEsc == 4

\* the longest string body of a value text handed to the parsers
MaxBody == 3

\* the number of parse calls that share one escape arena
MaxCalls == 2
\* largest finite sink (a byte slice) handed to serialize_resume
MaxSink == 2

\* ------------------------------------------------------------ bytes, chars

Min(a, b) == IF a <= b THEN a ELSE b

At(s, i) == s[i + 1]

\* usize::saturating_sub
saturating_sub(a, b) == IF a >= b THEN a - b ELSE 0

\* the code points the source names as literals
Ch == [ quote |-> 34, backslash |-> 92, slash |-> 47, backspace |-> 8,
        formfeed |-> 12, linefeed |-> 10, cr |-> 13, tab |-> 9, space |-> 32,
        b |-> 98, f |-> 102, n |-> 110, r |-> 114, t |-> 116,
        lcurly |-> 123, rcurly |-> 125, lsquare |-> 91, rsquare |-> 93,
        colon |-> 58, comma |-> 44, minus |-> 45, zero |-> 48, nine |-> 57 ]

LEFT_SQUARE_BRACKET == <<Ch.lsquare>>
LEFT_CURLY_BRACKET == <<Ch.lcurly>>
RIGHT_SQUARE_BRACKET == <<Ch.rsquare>>
RIGHT_CURLY_BRACKET == <<Ch.rcurly>>
COLON == <<Ch.colon>>
COMMA == <<Ch.comma>>
\* "true", "false", "null"
LIT_TRUE == <<116, 114, 117, 101>>
LIT_FALSE == <<102, 97, 108, 115, 101>>
LIT_NULL == <<110, 117, 108, 108>>

\* char::is_ascii / u8::is_ascii
is_ascii(c) == c < 128

\* u8::is_ascii_whitespace: space, \t, \n, form feed, \r
is_ascii_whitespace(c) == c \in {32, 9, 10, 12, 13}

\* char::encode_utf8, for the code points below U+10000
encode_utf8(c) ==
    IF c < 128 THEN <<c>>
    ELSE IF c < 2048 THEN <<192 + (c \div 64), 128 + (c % 64)>>
    ELSE <<224 + (c \div 4096), 128 + ((c \div 64) % 64), 128 + (c % 64)>>

\* ------------------------------------------------------------- value model

JString(s) == [tag |-> "String", str |-> s, bool |-> FALSE, neg |-> FALSE, mag |-> <<>>]
JBoolean(b) == [tag |-> "Boolean", str |-> <<>>, bool |-> b, neg |-> FALSE, mag |-> <<>>]
JNumber(neg, mag) == [tag |-> "Number", str |-> <<>>, bool |-> FALSE, neg |-> neg, mag |-> mag]
JNull == [tag |-> "Null", str |-> <<>>, bool |-> FALSE, neg |-> FALSE, mag |-> <<>>]

JsonField_new(key, value) == [key |-> key, value |-> value]

\* EMPTY_FIELD, also JsonField::default()
EMPTY_FIELD == [key |-> <<>>, value |-> JNull]

\* ------------------------------------------------------------ escape codec

\* an encode table that leaves the backslash unescaped
get_required_escape_sequence_plain_backslash(c) ==
    CASE c = Ch.quote -> <<Ch.backslash, Ch.quote>>
      [] c = Ch.slash -> <<Ch.backslash, Ch.slash>>
      [] c = Ch.backspace -> <<Ch.backslash, Ch.b>>
      [] c = Ch.formfeed -> <<Ch.backslash, Ch.f>>
      [] c = Ch.linefeed -> <<Ch.backslash, Ch.n>>
      [] c = Ch.cr -> <<Ch.backslash, Ch.r>>
      [] c = Ch.tab -> <<Ch.backslash, Ch.t>>
      [] OTHER -> <<>>

\* get_required_escape_sequence: <<>> stands for None
get_required_escape_sequence(c) ==
    CASE c = Ch.quote -> <<Ch.backslash, Ch.quote>>
      [] c = Ch.backslash -> <<Ch.backslash, Ch.backslash>>
      [] c = Ch.slash -> <<Ch.backslash, Ch.slash>>
      [] c = Ch.backspace -> <<Ch.backslash, Ch.b>>
      [] c = Ch.formfeed -> <<Ch.backslash, Ch.f>>
      [] c = Ch.linefeed -> <<Ch.backslash, Ch.n>>
      [] c = Ch.cr -> <<Ch.backslash, Ch.r>>
      [] c = Ch.tab -> <<Ch.backslash, Ch.t>>
      [] OTHER -> <<>>

\* a decode table that has the characters of b and f exchanged
get_required_unescaped_char_swapped(c) ==
    CASE c = Ch.quote -> Ch.quote
      [] c = Ch.backslash -> Ch.backslash
      [] c = Ch.slash -> Ch.slash
      [] c = Ch.b -> Ch.formfeed
      [] c = Ch.f -> Ch.backspace
      [] c = Ch.n -> Ch.linefeed
      [] c = Ch.r -> Ch.cr
      [] c = Ch.t -> Ch.tab
      [] OTHER -> -1

\* get_required_unescaped_char: -1 stands for None
get_required_unescaped_char(c) ==
    CASE c = Ch.quote -> Ch.quote
      [] c = Ch.backslash -> Ch.backslash
      [] c = Ch.slash -> Ch.slash
      [] c = Ch.b -> Ch.backspace
      [] c = Ch.f -> Ch.formfeed
      [] c = Ch.n -> Ch.linefeed
      [] c = Ch.r -> Ch.cr
      [] c = Ch.t -> Ch.tab
      [] OTHER -> -1

\* -------------------------------------------------------------- serializer

\* A byte sink (embedded_io::Write).  A bounded sink is a byte slice of `cap`
\* bytes; an unbounded one never fails.  buf holds the bytes accepted so far.
NewSink(bounded, cap) == [bounded |-> bounded, cap |-> cap, buf |-> <<>>, fmt |-> FALSE]

\* FormatWrapper::new(fmt): the sink is a core::fmt::Formatter, buf the text
\* it has been given so far
FormatWrapper_new == [bounded |-> FALSE, cap |-> 0, buf |-> <<>>, fmt |-> TRUE]

\* a write_all that reports success for the bytes it had no room for
write_all_lossy(output, target) ==
    LET room == IF output.bounded THEN output.cap - Len(output.buf) ELSE Len(target)
    IN [output |-> [output EXCEPT !.buf = @ \o SubSeq(target, 1, Min(room, Len(target)))],
        ok |-> TRUE]

\* Write::write_all as write_char uses it: a slice accepts bytes while it has
\* room and fails (SliceWriteError::Full) once it has none left.
write_all(output, target) ==
    LET room == IF output.bounded THEN output.cap - Len(output.buf) ELSE Len(target)
        taken == Min(room, Len(target))
    IN [output |-> [output EXCEPT !.buf = @ \o SubSeq(target, 1, taken)],
        ok |-> taken = Len(target)]

\* a write_char whose Err counts the bytes the sink rejected
write_char_counting_rejected(output, char, resume_from) ==
    LET encoded_string == encode_utf8(char)
        to_skip == Min(Len(encoded_string), resume_from)
        rest == SubSeq(encoded_string, to_skip + 1, Len(encoded_string))
        w == write_all(output, rest)
    IN IF rest = <<>> THEN [output |-> output, ok |-> TRUE, n |-> 0]
       ELSE IF w.ok THEN [output |-> w.output, ok |-> TRUE, n |-> Len(rest) + to_skip]
       ELSE [output |-> w.output, ok |-> FALSE, n |-> Len(rest)]

\* impl<T: Write + ErrorType> StringWrite for T :: write_char
write_char(output, char, resume_from) ==
    LET encoded_string == encode_utf8(char)
        to_skip == Min(Len(encoded_string), resume_from)
        target == SubSeq(encoded_string, to_skip + 1, Len(encoded_string))
        w == write_all(output, target)
    IN IF target = <<>> THEN [output |-> output, ok |-> TRUE, n |-> 0]
       ELSE IF w.ok THEN [output |-> w.output, ok |-> TRUE, n |-> Len(target) + to_skip]
       ELSE [output |-> w.output, ok |-> FALSE, n |-> 0]

\* impl StringWrite for FormatWrapper<&mut Formatter> :: write_char.  The
\* assert!(bytes_to_skip == 0) ends the call when it fails; Formatter's
\* write_char takes the whole character.
format_write_char(output, char, bytes_to_skip) ==
    IF bytes_to_skip # 0 THEN [output |-> output, ok |-> FALSE, n |-> 0]
    ELSE [output |-> [output EXCEPT !.buf = @ \o encode_utf8(char)],
          ok |-> TRUE, n |-> Len(encode_utf8(char))]

\* fn tracked_write: the characters of the_string from the i-th on.  The
\* result is the sink, the counter, and on failure the n of Err((n, e)).
RECURSIVE tracked_write_from(_, _, _, _, _)
tracked_write_from(output, counter, resume_from, the_string, i) ==
    IF i >= Len(the_string)
    THEN [output |-> output, counter |-> counter, ok |-> TRUE, err |-> 0]
    ELSE LET char == At(the_string, i)
             encoded_char == encode_utf8(char)
         IN IF resume_from > counter /\ resume_from - counter >= Len(encoded_char)
            THEN tracked_write_from(output, counter + Len(encoded_char),
                                    resume_from, the_string, i + 1)
            ELSE LET to_skip == IF resume_from <= counter THEN 0
                                ELSE resume_from - counter
                     w == IF output.fmt THEN format_write_char(output, char, to_skip)
                          ELSE write_char(output, char, to_skip)
                 IN IF w.ok
                    THEN tracked_write_from(w.output, counter + w.n,
                                            resume_from, the_string, i + 1)
                    ELSE [output |-> w.output, counter |-> counter + w.n, ok |-> FALSE,
                          err |-> saturating_sub(counter + w.n, resume_from)]

tracked_write(output, counter, resume_from, the_string) ==
    tracked_write_from(output, counter, resume_from, the_string, 0)

\* A serializer is a sequence of `tracked_write(...)?` calls: each starts from
\* the sink and counter the one before left, and the first that fails returns.
RECURSIVE tracked_writes(_, _, _, _, _)
tracked_writes(output, counter, resume_from, strings, i) ==
    IF i >= Len(strings)
    THEN [output |-> output, counter |-> counter, ok |-> TRUE, err |-> 0]
    ELSE LET w == tracked_write(output, counter, resume_from, At(strings, i))
         IN IF w.ok
            THEN tracked_writes(w.output, w.counter, resume_from, strings, i + 1)
            ELSE w

\* the strings write_escaped_json_string's loop hands to tracked_write, from
\* the i-th character on: nothing for a non-ASCII character, the escape
\* sequence where one is required, the character itself otherwise
RECURSIVE write_escaped_chars(_, _)
write_escaped_chars(str, i) ==
    IF i >= Len(str) THEN <<>>
    ELSE LET field_character == At(str, i)
             escape_sequence == get_required_escape_sequence(field_character)
         IN (IF ~is_ascii(field_character) THEN <<>>
             ELSE IF escape_sequence # <<>> THEN <<escape_sequence>>
             ELSE <<(<<field_character>>)>>)
            \o write_escaped_chars(str, i + 1)

\* the tracked_write calls of write_escaped_json_string, in order
write_escaped_json_string(str) ==
    <<(<<Ch.quote>>)>> \o write_escaped_chars(str, 0) \o <<(<<Ch.quote>>)>>

\* a rendering of the magnitude alone, the sign lost
base10_i64_unsigned(v) == [i \in 1..Len(v.mag) |-> Ch.zero + v.mag[i]]

\* numtoa::base10::i64(n).as_str()
base10_i64(v) ==
    (IF v.neg THEN <<Ch.minus>> ELSE <<>>) \o [i \in 1..Len(v.mag) |-> Ch.zero + v.mag[i]]

\* the tracked_write calls of the `match value` of both serializers
write_value(value) ==
    CASE value.tag = "Boolean" -> <<(IF value.bool THEN LIT_TRUE ELSE LIT_FALSE)>>
      [] value.tag = "Null" -> <<LIT_NULL>>
      [] value.tag = "Number" -> <<base10_i64(value)>>
      [] value.tag = "String" -> write_escaped_json_string(value.str)

\* the tracked_write calls of serialize_json_object's loop, from field i on
RECURSIVE serialize_object_fields(_, _)
serialize_object_fields(fs, i) ==
    IF i >= Len(fs) THEN <<>>
    ELSE (IF i > 0 THEN <<COMMA>> ELSE <<>>)
         \o write_escaped_json_string(At(fs, i).key)
         \o <<COLON>>
         \o write_value(At(fs, i).value)
         \o serialize_object_fields(fs, i + 1)

\* a result whose Ok carries the whole counter, skipped bytes included
SerializeResult_whole_counter(w, resume_from) ==
    [ok |-> w.ok, n |-> IF w.ok THEN w.counter ELSE w.err, out |-> w.output.buf]

\* Result<usize, (usize, E)> of a serializer, with the sink as it is left:
\* Ok(ret.saturating_sub(resume_from)), or the Err of the failed tracked_write
SerializeResult(w, resume_from) ==
    [ok |-> w.ok,
     n |-> IF w.ok THEN saturating_sub(w.counter, resume_from) ELSE w.err,
     out |-> w.output.buf]

serialize_json_object(output, fs, resume_from) ==
    SerializeResult(
        tracked_writes(output, 0, resume_from,
                       <<LEFT_CURLY_BRACKET>> \o serialize_object_fields(fs, 0)
                           \o <<RIGHT_CURLY_BRACKET>>, 0),
        resume_from)

\* the tracked_write calls of serialize_json_array's loop, from value i on
RECURSIVE serialize_array_values(_, _)
serialize_array_values(vs, i) ==
    IF i >= Len(vs) THEN <<>>
    ELSE (IF i > 0 THEN <<COMMA>> ELSE <<>>)
         \o write_value(At(vs, i))
         \o serialize_array_values(vs, i + 1)

serialize_json_array(output, vs, resume_from) ==
    SerializeResult(
        tracked_writes(output, 0, resume_from,
                       <<LEFT_SQUARE_BRACKET>> \o serialize_array_values(vs, 0)
                           \o <<RIGHT_SQUARE_BRACKET>>, 0),
        resume_from)

\* -------------------------------------------------------------- containers

\* slice::split_at(mid).0, which panics when mid > len
split_at_0(s, mid) ==
    IF mid > Len(s) THEN [panic |-> TRUE, slice |-> <<>>]
    ELSE [panic |-> FALSE, slice |-> SubSeq(s, 1, mid)]

\* JsonObject::wrap
wrap(fs) == [fields |-> fs, num_fields |-> 0]

\* JsonObject::wrap_init
wrap_init(fs) == [fields |-> fs, num_fields |-> Len(fs)]

\* ArrayJsonObject::<N>::new
ArrayJsonObject_new(N) == wrap([i \in 1..N |-> EMPTY_FIELD])

\* JsonObject::len
len(o) == o.num_fields

\* JsonObject::capacity
capacity(o) == Len(o.fields)

\* JsonObject::fields (and fields_const)
fields(o) == split_at_0(o.fields, o.num_fields)

\* impl PartialEq for JsonObject :: eq.  fields.as_ref() is the whole storage,
\* and two slices are equal when they have the same length and elements.
eq(o, other) ==
    o.num_fields = other.num_fields /\ o.fields = other.fields

\* a push that counts the field without looking at the capacity
push_unchecked(o, field) ==
    [o |-> [fields |-> [i \in 1..Len(o.fields) |->
                           IF i = o.num_fields + 1 THEN field ELSE o.fields[i]],
            num_fields |-> o.num_fields + 1],
     ret |-> "Ok", field |-> field]

\* JsonObject::push
push(o, field) ==
    IF o.num_fields = Len(o.fields)
    THEN [o |-> o, ret |-> "Err", field |-> field]
    ELSE [o |-> [fields |-> [o.fields EXCEPT ![o.num_fields + 1] = field],
                 num_fields |-> o.num_fields + 1],
          ret |-> "Ok", field |-> field]

\* JsonObject::pop: num_fields is decremented first and the slot at the new
\* num_fields + 1 is taken; indexing past the storage panics
pop(o) ==
    IF o.num_fields = 0
    THEN [o |-> o, ret |-> "None", field |-> EMPTY_FIELD]
    ELSE LET num_fields == o.num_fields - 1
             taken == num_fields + 1
         IN IF taken >= Len(o.fields)
            THEN [o |-> [o EXCEPT !.num_fields = num_fields],
                  ret |-> "Panic", field |-> EMPTY_FIELD]
            ELSE [o |-> [fields |-> [o.fields EXCEPT ![taken + 1] = EMPTY_FIELD],
                         num_fields |-> num_fields],
                  ret |-> "Some", field |-> At(o.fields, taken)]

\* a push_field that, on a full object, writes the field over the last one
push_field_over_last(o, key, value) ==
    IF o.num_fields = Len(o.fields)
    THEN [o |-> [o EXCEPT !.fields = [i \in 1..Len(o.fields) |->
                                         IF i = o.num_fields THEN JsonField_new(key, value)
                                         ELSE o.fields[i]]],
          ret |-> "Err", field |-> JsonField_new(key, value)]
    ELSE [o |-> [fields |-> [o.fields EXCEPT ![o.num_fields + 1] = JsonField_new(key, value)],
                 num_fields |-> o.num_fields + 1],
          ret |-> "Ok", field |-> JsonField_new(key, value)]

\* JsonObject::push_field
push_field(o, key, value) ==
    IF o.num_fields = Len(o.fields)
    THEN [o |-> o, ret |-> "Err", field |-> JsonField_new(key, value)]
    ELSE [o |-> [fields |-> [o.fields EXCEPT ![o.num_fields + 1] = JsonField_new(key, value)],
                 num_fields |-> o.num_fields + 1],
          ret |-> "Ok", field |-> JsonField_new(key, value)]

\* ArrayJsonObject::push_const (N is the array length)
push_const(o, key, value) ==
    IF o.num_fields = Len(o.fields)
    THEN [o |-> o, ret |-> "Err", field |-> JsonField_new(key, value)]
    ELSE [o |-> [fields |-> [o.fields EXCEPT ![o.num_fields + 1] = JsonField_new(key, value)],
                 num_fields |-> o.num_fields + 1],
          ret |-> "Ok", field |-> JsonField_new(key, value)]

\* ArrayJsonObject::pop_const: the last element of fields_const(), the object
\* itself is not written
pop_const(o) ==
    LET fs == fields(o)
    IN IF fs.panic THEN [o |-> o, ret |-> "Panic", field |-> EMPTY_FIELD]
       ELSE IF fs.slice = <<>> THEN [o |-> o, ret |-> "None", field |-> EMPTY_FIELD]
       ELSE [o |-> o, ret |-> "Some", field |-> fs.slice[Len(fs.slice)]]

\* JsonArray::wrap
array_wrap(vs) == [values |-> vs, num_values |-> 0]

\* JsonArray::wrap_init
array_wrap_init(vs) == [values |-> vs, num_values |-> Len(vs)]

\* ArrayJsonArray::<N>::new
ArrayJsonArray_new(N) == array_wrap([i \in 1..N |-> JNull])

\* JsonArray::len
array_len(a) == a.num_values

\* JsonArray::capacity
array_capacity(a) == Len(a.values)

\* JsonArray::values (and values_const)
values(a) == split_at_0(a.values, a.num_values)

\* ArrayJsonArray::push_const
array_push_const(a, value) ==
    IF a.num_values = Len(a.values)
    THEN [a |-> a, ret |-> "Err", value |-> value]
    ELSE [a |-> [values |-> [a.values EXCEPT ![a.num_values + 1] = value],
                 num_values |-> a.num_values + 1],
          ret |-> "Ok", value |-> value]

\* ArrayJsonArray::pop_const
array_pop_const(a) ==
    LET vs == values(a)
    IN IF vs.panic THEN [a |-> a, ret |-> "Panic", value |-> JNull]
       ELSE IF vs.slice = <<>> THEN [a |-> a, ret |-> "None", value |-> JNull]
       ELSE [a |-> a, ret |-> "Some", value |-> vs.slice[Len(vs.slice)]]

\* JsonObject::serialize_resume.  A panic of fields() is a panic of the call.
serialize_resume(o, output, resume_from) ==
    serialize_json_object(output, fields(o).slice, resume_from)

\* JsonObject::serialize: the count on success, the count dropped on failure
serialize(o, output) ==
    LET r == serialize_json_object(output, fields(o).slice, 0)
    IN [ok |-> r.ok, n |-> IF r.ok THEN r.n ELSE 0, out |-> r.out]

\* impl Display for JsonObject :: fmt
fmt(o) ==
    LET r == serialize_json_object(FormatWrapper_new, split_at_0(o.fields, o.num_fields).slice, 0)
    IN [ok |-> r.ok, text |-> r.out]

\* impl Display for JsonArray :: fmt
array_fmt(a) ==
    LET r == serialize_json_array(FormatWrapper_new, a.values, 0)
    IN [ok |-> r.ok, text |-> r.out]

\* JsonArray::serialize_resume
array_serialize_resume(a, output, resume_from) ==
    serialize_json_array(output, values(a).slice, resume_from)

\* JsonArray::serialize
array_serialize(a, output) ==
    LET r == serialize_json_array(output, values(a).slice, 0)
    IN [ok |-> r.ok, n |-> IF r.ok THEN r.n ELSE 0, out |-> r.out]

\* ------------------------------------------------------------------ buffers

\* ParseBuffer::Finite(position, slice)
ParseBuffer_Finite(position, slice) ==
    [kind |-> "Finite", position |-> position, slice |-> slice]

\* ParseBuffer::Infinite(position, vec)
ParseBuffer_Infinite(position, vec) ==
    [kind |-> "Infinite", position |-> position, slice |-> vec]

\* a write_thing that treats a Vec as a slice that cannot grow
write_thing_never_grows(pb, thing) ==
    IF pb.position = Len(pb.slice)
    THEN [ok |-> FALSE, pb |-> pb]
    ELSE [ok |-> TRUE,
          pb |-> [pb EXCEPT !.slice[pb.position + 1] = thing, !.position = @ + 1]]

\* ParseBuffer::write_thing; ok = FALSE is Err(FieldBufferTooSmall)
write_thing(pb, thing) ==
    IF pb.kind = "Finite"
    THEN IF pb.position = Len(pb.slice)
         THEN [ok |-> FALSE, pb |-> pb]
         ELSE [ok |-> TRUE,
               pb |-> [pb EXCEPT !.slice[pb.position + 1] = thing, !.position = @ + 1]]
    ELSE IF pb.position < Len(pb.slice)
         THEN [ok |-> TRUE,
               pb |-> [pb EXCEPT !.slice[pb.position + 1] = thing, !.position = @ + 1]]
         ELSE [ok |-> TRUE,
               pb |-> [pb EXCEPT !.slice = Append(@, thing), !.position = @ + 1]]

\* ParseBuffer::consume
consume(pb) == pb.position

\* StringBuffer::Finite(position, slice).  mem is the caller's whole buffer and
\* start the place in it where the slice the StringBuffer still holds begins.
StringBuffer_Finite(position, slice) ==
    [kind |-> "Finite", position |-> position, mem |-> slice, start |-> 0,
     current_string |-> <<>>, frozen_vec |-> <<>>]

\* StringBuffer::Infinite(current_string, frozen_vec)
StringBuffer_Infinite(current_string, frozen_vec) ==
    [kind |-> "Infinite", position |-> 0, mem |-> <<>>, start |-> 0,
     current_string |-> current_string, frozen_vec |-> frozen_vec]

\* StringBuffer::write_part; ok = FALSE is Err(EscapeBufferTooSmall)
write_part(sb, string) ==
    IF Len(string) = 0 THEN [ok |-> TRUE, sb |-> sb]
    ELSE IF sb.kind = "Finite"
    THEN LET needed == Len(string)
             have == (Len(sb.mem) - sb.start) - sb.position
             first == sb.start + sb.position
         IN IF needed > have
            THEN [ok |-> FALSE, sb |-> sb]
            ELSE [ok |-> TRUE,
                  sb |-> [sb EXCEPT
                      !.mem = [i \in 1..Len(sb.mem) |->
                                  IF i > first /\ i <= first + needed
                                  THEN string[i - first] ELSE sb.mem[i]],
                      !.position = @ + needed]]
    ELSE [ok |-> TRUE, sb |-> [sb EXCEPT !.current_string = @ \o string]]

\* a consume_string whose arena keeps the completed string in place of the
\* last entry it holds
consume_string_replaces_last(sb) ==
    IF sb.kind = "Finite"
    THEN [sb |-> [sb EXCEPT !.start = @ + sb.position, !.position = 0],
          ref |-> [a |-> sb.start, b |-> sb.position]]
    ELSE [sb |-> [sb EXCEPT !.frozen_vec =
                                IF @ = <<>> THEN <<sb.current_string>>
                                ELSE [@ EXCEPT ![Len(@)] = sb.current_string],
                            !.current_string = <<>>],
          ref |-> [a |-> IF sb.frozen_vec = <<>> THEN 0 ELSE Len(sb.frozen_vec) - 1,
                   b |-> Len(sb.current_string)]]

\* StringBuffer::consume_string.  The &str it returns is a reference: the
\* region [a, a + b) of the escape buffer, or entry a of the FrozenVec.
consume_string(sb) ==
    IF sb.kind = "Finite"
    THEN [sb |-> [sb EXCEPT !.start = @ + sb.position, !.position = 0],
          ref |-> [a |-> sb.start, b |-> sb.position]]
    ELSE [sb |-> [sb EXCEPT !.frozen_vec = Append(@, sb.current_string),
                            !.current_string = <<>>],
          ref |-> [a |-> Len(sb.frozen_vec), b |-> Len(sb.current_string)]]

\* reading a &str that consume_string returned
Deref(sb, ref) ==
    IF sb.kind = "Finite" THEN SubSeq(sb.mem, ref.a + 1, ref.a + ref.b)
    ELSE sb.frozen_vec[ref.a + 1]

\* reading a field whose strings are such references
DerefField(sb, field) ==
    [key |-> Deref(sb, field.key),
     value |-> IF field.value.tag = "String"
               THEN JString(Deref(sb, field.value.str)) ELSE field.value]

\* ------------------------------------------------------------------- parser

\* What a scanning step returns: Ok with the index it reached, Err with a
\* JsonParseFailure, or Panic when a slice is indexed out of bounds.
StepOk(index) == [kind |-> "Ok", err |-> "", index |-> index]
StepErr(failure) == [kind |-> "Err", err |-> failure, index |-> 0]

RECURSIVE whitespace_end(_, _)
whitespace_end(index, d) ==
    IF index < Len(d) /\ is_ascii_whitespace(At(d, index))
    THEN whitespace_end(index + 1, d) ELSE index

\* a skip_whitespace that returns Ok when it has reached the end of the data
skip_whitespace_past_end(index, d) == StepOk(whitespace_end(index, d))

\* skip_whitespace
skip_whitespace(index, d) ==
    LET i == whitespace_end(index, d)
    IN IF i = Len(d) THEN StepErr("Incomplete") ELSE StepOk(i)

RECURSIVE numeric_end(_, _)
numeric_end(index, d) ==
    IF index < Len(d) /\ At(d, index) <= Ch.nine /\ At(d, index) >= Ch.zero
    THEN numeric_end(index + 1, d) ELSE index

\* a skip_numeric that takes the end of the data for a wrong terminator
skip_numeric_end_is_invalid(index, d) ==
    LET i == numeric_end(index, d)
    IN IF i >= Len(d) THEN StepErr("InvalidNumericField")
       ELSE IF is_ascii_whitespace(At(d, i)) \/ At(d, i) = Ch.comma \/ At(d, i) = Ch.rcurly
       THEN StepOk(i)
       ELSE StepErr("InvalidNumericField")

\* skip_numeric
skip_numeric(index, d) ==
    LET i == numeric_end(index, d)
    IN IF i = Len(d) THEN StepErr("Incomplete")
       ELSE IF i > Len(d) THEN [kind |-> "Panic", err |-> "", index |-> 0]
       ELSE IF is_ascii_whitespace(At(d, i)) \/ At(d, i) = Ch.comma \/ At(d, i) = Ch.rcurly
       THEN StepOk(i)
       ELSE StepErr("InvalidNumericField")

RECURSIVE skip_literal_from(_, _, _, _, _)
skip_literal_from(start, index, d, target, field_error_type) ==
    IF ~(index - start < Len(target)) THEN StepOk(index)
    ELSE IF index >= Len(d) THEN StepErr("Incomplete")
    ELSE IF At(d, index) # At(target, index - start) THEN StepErr(field_error_type)
    ELSE skip_literal_from(start, index + 1, d, target, field_error_type)

\* a skip_literal that steps over as many bytes as the literal has without
\* comparing them
skip_literal_unchecked(index, d, target, field_error_type) ==
    IF index + Len(target) > Len(d) THEN StepErr("Incomplete")
    ELSE StepOk(index + Len(target))

\* skip_literal
skip_literal(index, d, target, field_error_type) ==
    skip_literal_from(index, index, d, target, field_error_type)

\* What unescape_json_string returns: as a step, with the StringBuffer as it
\* is left and, on Ok, the reference to the unescaped string.
StringErr(failure, sb) ==
    [kind |-> "Err", err |-> failure, index |-> 0, sb |-> sb, ref |-> [a |-> 0, b |-> 0]]

RECURSIVE unescape_loop(_, _, _, _)
unescape_loop(index, d, escaped, current_char_escaped) ==
    IF ~(index < Len(d)) THEN StringErr("Incomplete", escaped)
    ELSE LET current_char == At(d, index)
             unescaped_char == get_required_unescaped_char(current_char)
             wu == write_part(escaped, encode_utf8(unescaped_char))
             wc == write_part(escaped, encode_utf8(current_char))
             cs == consume_string(escaped)
         IN IF ~is_ascii(current_char) THEN StringErr("InvalidStringField", escaped)
            ELSE IF current_char_escaped
            THEN IF unescaped_char # -1
                 THEN IF wu.ok THEN unescape_loop(index + 1, d, wu.sb, FALSE)
                      ELSE StringErr("EscapeBufferTooSmall", wu.sb)
                 ELSE StringErr("InvalidStringField", escaped)
            ELSE IF current_char = Ch.backslash
            THEN unescape_loop(index + 1, d, escaped, TRUE)
            ELSE IF current_char = Ch.quote
            THEN [kind |-> "Ok", err |-> "", index |-> index + 1, sb |-> cs.sb, ref |-> cs.ref]
            ELSE IF wc.ok THEN unescape_loop(index + 1, d, wc.sb, current_char_escaped)
                 ELSE StringErr("EscapeBufferTooSmall", wc.sb)

\* unescape_json_string
unescape_json_string(index, d, escaped) ==
    IF index >= Len(d)
    THEN [kind |-> "Panic", err |-> "", index |-> 0, sb |-> escaped, ref |-> [a |-> 0, b |-> 0]]
    ELSE IF At(d, index) # Ch.quote THEN StringErr("InvalidStringField", escaped)
    ELSE unescape_loop(index + 1, d, escaped, FALSE)

\* the magnitudes of i64::MAX and i64::MIN
I64_MAX_MAG == <<9, 2, 2, 3, 3, 7, 2, 0, 3, 6, 8, 5, 4, 7, 7, 5, 8, 0, 7>>
I64_MIN_MAG == <<9, 2, 2, 3, 3, 7, 2, 0, 3, 6, 8, 5, 4, 7, 7, 5, 8, 0, 8>>

\* a > b for digit sequences without leading zeros
MagGreater(a, b) ==
    \/ Len(a) > Len(b)
    \/ /\ Len(a) = Len(b)
       /\ \E i \in 1..Len(a) : a[i] > b[i] /\ \A j \in 1..(i - 1) : a[j] = b[j]

RECURSIVE strip_zeros(_)
strip_zeros(digits) ==
    IF Len(digits) > 1 /\ digits[1] = 0 THEN strip_zeros(Tail(digits)) ELSE digits

\* <i64 as FromStr>::from_str (core): an optional sign, then one or more
\* decimal digits, an error when the value does not fit
str_parse_i64(numeric_string) ==
    LET signed == Len(numeric_string) > 0 /\ numeric_string[1] \in {Ch.minus, 43}
        neg == Len(numeric_string) > 0 /\ numeric_string[1] = Ch.minus
        body == IF signed THEN Tail(numeric_string) ELSE numeric_string
        mag == strip_zeros([i \in 1..Len(body) |-> body[i] - Ch.zero])
    IN IF body = <<>> \/ \E i \in 1..Len(body) : body[i] < Ch.zero \/ body[i] > Ch.nine
       THEN [ok |-> FALSE, value |-> JNull]
       ELSE IF MagGreater(mag, IF neg THEN I64_MIN_MAG ELSE I64_MAX_MAG)
       THEN [ok |-> FALSE, value |-> JNull]
       ELSE [ok |-> TRUE, value |-> JNumber(neg /\ mag # <<0>>, mag)]

\* What parsing one value returns: as a step, with the StringBuffer as it is
\* left and, on Ok, the JsonValue (a String holds a reference).
ValueErr(failure, sb) ==
    [kind |-> "Err", err |-> failure, index |-> 0, sb |-> sb, value |-> JNull]
ValueOf(step, sb, value) ==
    [kind |-> step.kind, err |-> step.err, index |-> step.index, sb |-> sb, value |-> value]

\* the digits of a number: the run from `start` that skip_numeric ends
number_value(start, d, escaped, negative) ==
    LET sn == skip_numeric(start + 1, d)
        parsed == str_parse_i64(SubSeq(d, start + 1, sn.index))
    IN IF sn.kind # "Ok" THEN ValueOf(sn, escaped, JNull)
       ELSE IF negative /\ sn.index - start = 1 THEN ValueErr("InvalidNumericField", escaped)
       ELSE IF ~parsed.ok THEN ValueErr("NumberParseError", escaped)
       ELSE ValueOf(sn, escaped, parsed.value)

\* the value dispatch on data[current_data_index], written out twice in the
\* source: in parse_json_object and in JsonValue::parse
parse_value(index, d, escaped) ==
    IF index >= Len(d)
    THEN [kind |-> "Panic", err |-> "", index |-> 0, sb |-> escaped, value |-> JNull]
    ELSE LET c == At(d, index)
             us == unescape_json_string(index, d, escaped)
             expect_true == c = Ch.t
         IN IF c = Ch.quote
            THEN [kind |-> us.kind, err |-> us.err, index |-> us.index, sb |-> us.sb,
                  value |-> [JString(<<>>) EXCEPT !.str = us.ref]]
            ELSE IF c = Ch.n
            THEN ValueOf(skip_literal(index, d, LIT_NULL, "InvalidBooleanField"),
                         escaped, JNull)
            ELSE IF c = Ch.t \/ c = Ch.f
            THEN ValueOf(skip_literal(index, d, IF expect_true THEN LIT_TRUE ELSE LIT_FALSE,
                                      "InvalidBooleanField"),
                         escaped, JBoolean(expect_true))
            ELSE IF c = Ch.minus THEN number_value(index, d, escaped, TRUE)
            ELSE IF c >= Ch.zero /\ c < Ch.nine THEN number_value(index, d, escaped, FALSE)
            ELSE ValueErr("InvalidStructure", escaped)

\* an Ok that reports the index of the closing bracket, not the count
ParseOk_bracket_index(consumed, field_buffer, sb) ==
    [kind |-> "Ok", err |-> "", consumed |-> consumed - 1, count |-> consume(field_buffer),
     fb |-> field_buffer, sb |-> sb]

\* What parse_json_object returns: Ok((consumed, count)), Err(failure) or a
\* panic, with the ParseBuffer and the StringBuffer as the call leaves them.
ParseOk(consumed, field_buffer, sb) ==
    [kind |-> "Ok", err |-> "", consumed |-> consumed, count |-> consume(field_buffer),
     fb |-> field_buffer, sb |-> sb]
ParseErr(failure, field_buffer, sb) ==
    [kind |-> "Err", err |-> failure, consumed |-> 0, count |-> 0,
     fb |-> field_buffer, sb |-> sb]
ParsePanic(field_buffer, sb) ==
    [kind |-> "Panic", err |-> "", consumed |-> 0, count |-> 0,
     fb |-> field_buffer, sb |-> sb]
\* a step that did not return Ok, returned from parse_json_object by `?`
ParseOf(step, field_buffer, sb) ==
    [kind |-> step.kind, err |-> step.err, consumed |-> 0, count |-> 0,
     fb |-> field_buffer, sb |-> sb]

RECURSIVE parse_entries(_, _, _, _, _)

\* one entry, from field_buffer.write_thing on: the field is stored and the
\* loop goes on after the value, a comma now required
entry_write(val, wt, d, field_buffer) ==
    IF ~wt.ok THEN ParseErr("FieldBufferTooSmall", field_buffer, val.sb)
    ELSE parse_entries(val.index, d, TRUE, wt.pb, val.sb)

\* one entry, from the value dispatch on data[current_data_index] on
entry_value(key, val, d, field_buffer) ==
    IF val.kind # "Ok" THEN ParseOf(val, field_buffer, val.sb)
    ELSE entry_write(val, write_thing(field_buffer, JsonField_new(key.ref, val.value)),
                     d, field_buffer)

\* one entry, from the skip_whitespace after the colon on
entry_after_colon(key, ws3, d, field_buffer) ==
    IF ws3.kind # "Ok" THEN ParseOf(ws3, field_buffer, key.sb)
    ELSE entry_value(key, parse_value(ws3.index, d, key.sb), d, field_buffer)

\* one entry, from the skip_whitespace after the key on
entry_colon(key, ws2, d, field_buffer) ==
    IF ws2.kind # "Ok" THEN ParseOf(ws2, field_buffer, key.sb)
    ELSE IF ws2.index >= Len(d) THEN ParsePanic(field_buffer, key.sb)
    ELSE IF At(d, ws2.index) # Ch.colon
    THEN ParseErr("InvalidStructure", field_buffer, key.sb)
    ELSE entry_after_colon(key, skip_whitespace(ws2.index + 1, d), d, field_buffer)

\* one entry, from the unescape_json_string of the key on
entry_key(key, d, field_buffer) ==
    IF key.kind # "Ok" THEN ParseOf(key, field_buffer, key.sb)
    ELSE entry_colon(key, skip_whitespace(key.index, d), d, field_buffer)

\* a pass of the loop that takes the comma between two entries as optional
entry_start_optional_comma(ws1, d, map_entry_needs_comma, field_buffer, sb) ==
    IF ws1.kind # "Ok" THEN ParseOf(ws1, field_buffer, sb)
    ELSE IF ws1.index >= Len(d) THEN ParsePanic(field_buffer, sb)
    ELSE IF At(d, ws1.index) = Ch.rcurly THEN ParseOk(ws1.index + 1, field_buffer, sb)
    ELSE IF map_entry_needs_comma /\ At(d, ws1.index) = Ch.comma
    THEN parse_entries(ws1.index + 1, d, FALSE, field_buffer, sb)
    ELSE entry_key(unescape_json_string(ws1.index, d, sb), d, field_buffer)

\* one pass of the loop, from its first skip_whitespace on
entry_start(ws1, d, map_entry_needs_comma, field_buffer, sb) ==
    IF ws1.kind # "Ok" THEN ParseOf(ws1, field_buffer, sb)
    ELSE IF ws1.index >= Len(d) THEN ParsePanic(field_buffer, sb)
    ELSE IF At(d, ws1.index) = Ch.rcurly THEN ParseOk(ws1.index + 1, field_buffer, sb)
    ELSE IF map_entry_needs_comma
    THEN IF At(d, ws1.index) # Ch.comma
         THEN ParseErr("InvalidStructure", field_buffer, sb)
         ELSE parse_entries(ws1.index + 1, d, FALSE, field_buffer, sb)
    ELSE entry_key(unescape_json_string(ws1.index, d, sb), d, field_buffer)

\* the `while current_data_index < data.len()` loop
parse_entries(current_data_index, d, map_entry_needs_comma, field_buffer, sb) ==
    IF ~(current_data_index < Len(d)) THEN ParseErr("Incomplete", field_buffer, sb)
    ELSE entry_start(skip_whitespace(current_data_index, d), d, map_entry_needs_comma,
                     field_buffer, sb)

\* parse_json_object
parse_json_object(d, field_buffer, string_escape_buffer) ==
    LET ws == skip_whitespace(0, d)
    IN IF ws.kind # "Ok" THEN ParseOf(ws, field_buffer, string_escape_buffer)
       ELSE IF ws.index >= Len(d) THEN ParsePanic(field_buffer, string_escape_buffer)
       ELSE IF At(d, ws.index) # Ch.lcurly
       THEN ParseErr("InvalidStructure", field_buffer, string_escape_buffer)
       ELSE parse_entries(ws.index + 1, d, FALSE, field_buffer, string_escape_buffer)

\* What a parse method of JsonObject returns: the object as the call leaves
\* it (the storage as the caller reads it after the parse wrote `position`
\* things), Ok(consumed) / Err(failure) / a panic, and the escape buffer.
ObjectParsed(o, r) ==
    [o |-> [fields |-> [i \in 1..Len(r.fb.slice) |->
                          IF i <= r.fb.position THEN DerefField(r.sb, r.fb.slice[i])
                          ELSE r.fb.slice[i]],
            num_fields |-> IF r.kind = "Ok" THEN r.count ELSE o.num_fields],
     kind |-> r.kind, err |-> r.err, consumed |-> r.consumed,
     escape |-> IF r.sb.kind = "Finite" THEN r.sb.mem ELSE r.sb.frozen_vec]

\* JsonObject::parse
parse(o, d, string_escape_buffer) ==
    ObjectParsed(o, parse_json_object(d, ParseBuffer_Finite(0, o.fields),
                                      StringBuffer_Finite(0, string_escape_buffer)))

\* JsonObject::parse_alloc_escape
parse_alloc_escape(o, d, escape_buffer) ==
    ObjectParsed(o, parse_json_object(d, ParseBuffer_Finite(0, o.fields),
                                      StringBuffer_Infinite(<<>>, escape_buffer)))

\* JsonObject::parse_alloc_fields
parse_alloc_fields(o, d, escape_buffer) ==
    ObjectParsed(o, parse_json_object(d, ParseBuffer_Infinite(0, o.fields),
                                      StringBuffer_Finite(0, escape_buffer)))

\* JsonObject::parse_alloc
parse_alloc(o, d, escape_buffer) ==
    ObjectParsed(o, parse_json_object(d, ParseBuffer_Infinite(0, o.fields),
                                      StringBuffer_Infinite(<<>>, escape_buffer)))

\* JsonValue::parse
JsonValue_parse(d, escape_buffer_slice) ==
    LET escape_buffer == StringBuffer_Finite(0, escape_buffer_slice)
        ws == skip_whitespace(0, d)
        val == parse_value(ws.index, d, escape_buffer)
    IN IF ws.kind # "Ok" THEN [kind |-> ws.kind, err |-> ws.err, consumed |-> 0, value |-> JNull]
       ELSE [kind |-> val.kind, err |-> val.err, consumed |-> val.index,
             value |-> IF val.kind = "Ok" /\ val.value.tag = "String"
                       THEN JString(Deref(val.sb, val.value.str)) ELSE val.value]

\* a caller's escape buffer: [0_u8; n]
EscapeBuffer(n) == [i \in 1..n |-> 0]

\* ================================================================ Spec
\* A caller exercising one container, a JsonObject (under_test = "object") or a
\* JsonArray (under_test = "array"), through its public methods.

\* the fields a caller pushes: "a":1, "b":"x"
FieldChoices ==
    { JsonField_new(<<97>>, JNumber(FALSE, <<1>>)),
      JsonField_new(<<98>>, JString(<<120>>)) }

\* the values a caller pushes into an array
ValueChoices == { JNull, JNumber(FALSE, <<1>>), JString(<<120>>) }

\* the documents a caller parses into the object:
\*   {}   {"a":1}   {"a":1,"b":"x","c":null}   {"c":null,"b"
DocChoices ==
    { <<123, 125>>,
      <<123, 34, 97, 34, 58, 49, 125>>,
      <<123, 34, 97, 34, 58, 49, 44, 34, 98, 34, 58, 34, 120, 34, 44, 34, 99, 34,
        58, 110, 117, 108, 108, 125>>,
      <<123, 34, 99, 34, 58, 110, 117, 108, 108, 44, 34, 98, 34>> }

\* every sequence over S of length at most n
SeqsUpTo(S, n) == UNION { [1..k -> S] : k \in 0..n }

NoCall == [op |-> "none"]

\* The state after construction: a JsonObject made by ArrayJsonObject::new,
\* or by wrap / wrap_init of an array or a Vec, or a JsonArray made by
\* ArrayJsonArray::new or wrap_init.  The default object and array stand in
\* for the container the caller does not exercise.
Init ==
    /\ under_test \in {"object", "array"}
    /\ pc = "calls"
    /\ IF under_test = "object"
       THEN /\ \/ /\ \E N \in 0..Cap : obj = ArrayJsonObject_new(N)
                  /\ storage = "array"
               \/ /\ \E fs \in SeqsUpTo(FieldChoices, Cap) : obj \in {wrap(fs), wrap_init(fs)}
                  /\ storage \in {"array", "vec"}
            /\ arr = ArrayJsonArray_new(0)
       ELSE /\ obj = ArrayJsonObject_new(0)
            /\ storage = "array"
            /\ \/ \E N \in 0..Cap : arr = ArrayJsonArray_new(N)
               \/ \E vs \in SeqsUpTo(ValueChoices, Cap) : arr = array_wrap_init(vs)
    /\ data = <<>>
    /\ res = NoCall
    /\ offset = 0
    /\ acc = <<>>
    /\ calls = <<>>

\* what a call on the object leaves: the object, and in res the call, the
\* object before it, the field handed to it and what it returned
ObjectCall(op, arg, r) ==
    /\ obj' = r.o
    /\ res' = [op |-> op, before |-> obj, arg |-> arg, ret |-> r.ret, field |-> r.field]
    /\ UNCHANGED <<under_test, storage, arr, data, offset, acc, calls, pc>>

Push ==
    /\ under_test = "object"
    /\ \E field \in FieldChoices : ObjectCall("push", field, push(obj, field))

PushField ==
    /\ under_test = "object"
    /\ \E field \in FieldChoices :
          ObjectCall("push_field", field, push_field(obj, field.key, field.value))

PushConst ==
    /\ under_test = "object" /\ storage = "array"
    /\ \E field \in FieldChoices :
          ObjectCall("push_const", field, push_const(obj, field.key, field.value))

Pop ==
    /\ under_test = "object"
    /\ ObjectCall("pop", EMPTY_FIELD, pop(obj))

PopConst ==
    /\ under_test = "object" /\ storage = "array"
    /\ ObjectCall("pop_const", EMPTY_FIELD, pop_const(obj))

\* what a parse call on the object leaves
ParseCall(op, d, r) ==
    /\ obj' = r.o
    /\ res' = [op |-> op, before |-> obj, doc |-> d, kind |-> r.kind, err |-> r.err,
               consumed |-> r.consumed]
    /\ UNCHANGED <<under_test, storage, arr, data, offset, acc, calls, pc>>

Parse ==
    /\ under_test = "object"
    /\ \E d \in DocChoices, e \in {0, MaxEsc} :
          ParseCall("parse", d, parse(obj, d, EscapeBuffer(e)))

ParseAllocFields ==
    /\ under_test = "object" /\ storage = "vec"
    /\ \E d \in DocChoices, e \in {0, MaxEsc} :
          ParseCall("parse_alloc_fields", d, parse_alloc_fields(obj, d, EscapeBuffer(e)))

ParseAllocVec ==
    /\ under_test = "object" /\ storage = "vec"
    /\ \E d \in DocChoices : ParseCall("parse_alloc", d, parse_alloc(obj, d, <<>>))

\* obj == other, for another object over the same storage type: an array of
\* the same length, or any Vec
Eq ==
    /\ under_test = "object"
    /\ \E fs \in SeqsUpTo(FieldChoices, Cap), init \in BOOLEAN :
          /\ storage = "array" => Len(fs) = capacity(obj)
          /\ LET other == IF init THEN wrap_init(fs) ELSE wrap(fs)
             IN res' = [op |-> "eq", before |-> obj, other |-> other,
                        ret |-> eq(obj, other)]
    /\ UNCHANGED <<under_test, obj, storage, arr, data, offset, acc, calls, pc>>

\* what a call on the array leaves
ArrayCall(op, r) ==
    /\ arr' = r.a
    /\ res' = [op |-> op, before |-> arr, ret |-> r.ret, value |-> r.value]
    /\ UNCHANGED <<under_test, obj, storage, data, offset, acc, calls, pc>>

ArrayPushConst ==
    /\ under_test = "array"
    /\ \E value \in ValueChoices : ArrayCall("array_push_const", array_push_const(arr, value))

ArrayPopConst ==
    /\ under_test = "array"
    /\ ArrayCall("array_pop_const", array_pop_const(arr))

Next ==
    \/ Push \/ PushField \/ PushConst \/ Pop \/ PopConst
    \/ Parse \/ ParseAllocFields \/ ParseAllocVec \/ Eq
    \/ ArrayPushConst \/ ArrayPopConst

Spec == Init /\ [][Next]_vars

\* ------------------------------------------------------- claims under Spec

\* C9: after any sequence of constructions, pushes, pops and parses,
\* len() <= capacity() holds for the object and for the array, and fields() /
\* values() returns, without panicking, a slice of exactly len() elements.
C9_ContainerInvariant ==
    /\ len(obj) >= 0 /\ len(obj) <= capacity(obj)
    /\ ~fields(obj).panic /\ Len(fields(obj).slice) = len(obj)
    /\ array_len(arr) >= 0 /\ array_len(arr) <= array_capacity(arr)
    /\ ~values(arr).panic /\ Len(values(arr).slice) = array_len(arr)

\* C9 witness: a failed parse has returned on an object that is full
C9_Witness ==
    /\ res.op = "parse" /\ res.kind = "Err"
    /\ len(obj) = capacity(obj) /\ len(obj) > 0

\* C10: pop on an object with n > 0 fields returns Some(the field at index
\* n - 1), leaves len() = n - 1 and the first n - 1 fields unchanged, and does
\* not panic; on an empty object it returns None and changes nothing.
C10_PopReturnsLast ==
    res.op = "pop" =>
        LET n == res.before.num_fields
        IN IF n > 0
           THEN /\ res.ret = "Some"
                /\ res.field = res.before.fields[n]
                /\ len(obj) = n - 1
                /\ SubSeq(obj.fields, 1, n - 1) = SubSeq(res.before.fields, 1, n - 1)
           ELSE res.ret = "None" /\ obj = res.before

\* C11: pop_const on an ArrayJsonObject or ArrayJsonArray with n > 0 elements
\* returns Some(the last initialized element) and leaves len() = n - 1; on an
\* empty container it returns None.
C11_PopConstRemovesLast ==
    /\ res.op = "pop_const" =>
           LET n == res.before.num_fields
           IN IF n > 0
              THEN /\ res.ret = "Some" /\ res.field = res.before.fields[n]
                   /\ len(obj) = n - 1
              ELSE res.ret = "None"
    /\ res.op = "array_pop_const" =>
           LET n == res.before.num_values
           IN IF n > 0
              THEN /\ res.ret = "Some" /\ res.value = res.before.values[n]
                   /\ array_len(arr) = n - 1
              ELSE res.ret = "None"

\* C12: push, push_field and push_const on a full object return Err (push
\* with the rejected field), do not panic and leave the object as it was; on
\* an object with room they store the field at index len(), add one to len()
\* and leave the earlier fields unchanged.
C12_PushAtCapacity ==
    res.op \in {"push", "push_field", "push_const"} =>
        LET n == res.before.num_fields
        IN IF n = Len(res.before.fields)
           THEN /\ res.ret = "Err"
                /\ res.op = "push" => res.field = res.arg
                /\ obj = res.before
           ELSE /\ res.ret = "Ok"
                /\ len(obj) = n + 1
                /\ capacity(obj) = Len(res.before.fields)
                /\ obj.fields[n + 1] = res.arg
                /\ \A i \in 1..n : obj.fields[i] = res.before.fields[i]

\* C12 witness: push_field has returned Err on a full object that holds fields
C12_Witness ==
    /\ res.op = "push_field" /\ res.ret = "Err"
    /\ len(obj) = capacity(obj) /\ len(obj) = Cap

\* C13: two objects over the same storage type are equal if and only if they
\* have the same number of initialized fields and the same initialized fields
\* in the same order, whatever the slots at index >= len() hold.
C13_EqualityOfInitializedFields ==
    res.op = "eq" =>
        (res.ret <=> /\ len(res.before) = len(res.other)
                     /\ fields(res.before).slice = fields(res.other).slice)

\* the fields of the well-formed documents of DocChoices, in input order
DocFields(d) ==
    CASE d = <<123, 34, 97, 34, 58, 49, 125>> ->
             << JsonField_new(<<97>>, JNumber(FALSE, <<1>>)) >>
      [] d = <<123, 34, 97, 34, 58, 49, 44, 34, 98, 34, 58, 34, 120, 34, 44, 34, 99, 34,
               58, 110, 117, 108, 108, 125>> ->
             << JsonField_new(<<97>>, JNumber(FALSE, <<1>>)),
                JsonField_new(<<98>>, JString(<<120>>)),
                JsonField_new(<<99>>, JNull) >>
      [] OTHER -> <<>>

\* C15: parse_alloc_fields and parse_alloc never return FieldBufferTooSmall;
\* when they return Ok for a document of c fields, whatever the Vec held, its
\* first c positions hold the parsed fields in input order, it is as long as
\* before or c long if that is more, what it held beyond c is unchanged, and
\* len() is c.
C15_GrowableStorage ==
    res.op \in {"parse_alloc_fields", "parse_alloc"} =>
        /\ res.err # "FieldBufferTooSmall"
        /\ res.kind = "Ok" =>
               LET c == Len(DocFields(res.doc))
                   before == Len(res.before.fields)
               IN /\ len(obj) = c
                  /\ capacity(obj) = IF before > c THEN before ELSE c
                  /\ SubSeq(obj.fields, 1, c) = DocFields(res.doc)
                  /\ \A i \in (c + 1)..before : obj.fields[i] = res.before.fields[i]

\* C15 witness: a parse of three fields has grown a Vec that held fewer
C15_Witness ==
    /\ res.op = "parse_alloc_fields" /\ res.kind = "Ok"
    /\ len(obj) = 3 /\ Len(res.before.fields) < 3 /\ res.before.num_fields > 0

\* ============================================================= SpecSer
\* A caller that builds a container by pushes (pc = "build") and serializes
\* it: one serialize_resume call at any offset (pc = "called"), after a failed
\* one the next call (pc = "resumed"), or the loop of
\* test_serialize_resume_object_single_byte generalised to any sink size:
\* resume with a fresh sink until Ok, adding the count of each Err to the
\* offset (pc = "loop", then "done").

\* the fields pushed: "k":-12, "<e-acute><quote>":"a<LF>", "":false
SerFieldChoices ==
    { JsonField_new(<<107>>, JNumber(TRUE, <<1, 2>>)),
      JsonField_new(<<233, 34>>, JString(<<97, 10>>)),
      JsonField_new(<<>>, JBoolean(FALSE)) }

InitSer ==
    /\ under_test \in {"object", "array"}
    /\ obj = ArrayJsonObject_new(IF under_test = "object" THEN Cap ELSE 0)
    /\ storage = "array"
    /\ arr = ArrayJsonArray_new(IF under_test = "array" THEN Cap ELSE 0)
    /\ data = <<>>
    /\ res = NoCall
    /\ offset = 0
    /\ acc = <<>>
    /\ calls = <<>>
    /\ pc = "build"

\* serialize_resume of the container under test
Resume(output, resume_from) ==
    IF under_test = "object" THEN serialize_resume(obj, output, resume_from)
    ELSE array_serialize_resume(arr, output, resume_from)

\* serialize of the container under test into a sink that never fails
Serialized ==
    IF under_test = "object" THEN serialize(obj, NewSink(FALSE, 0)).out
    ELSE array_serialize(arr, NewSink(FALSE, 0)).out

SerPush ==
    /\ pc = "build"
    /\ IF under_test = "object"
       THEN /\ len(obj) < capacity(obj)
            /\ \E field \in SerFieldChoices : obj' = push(obj, field).o
            /\ arr' = arr
       ELSE /\ array_len(arr) < array_capacity(arr)
            /\ \E value \in { JNumber(TRUE, <<1, 2>>), JString(<<233, 10, 97>>), JNull } :
                  arr' = array_push_const(arr, value).a
            /\ obj' = obj
    /\ res' = [op |-> "push"]
    /\ UNCHANGED <<under_test, storage, data, offset, acc, calls, pc>>

\* format!("{}", container), next to serialize of the same container
Format ==
    /\ pc = "build"
    /\ data' = Serialized
    /\ res' = IF under_test = "object"
              THEN [op |-> "fmt", ok |-> fmt(obj).ok, text |-> fmt(obj).text]
              ELSE [op |-> "fmt", ok |-> array_fmt(arr).ok, text |-> array_fmt(arr).text]
    /\ pc' = "formatted"
    /\ UNCHANGED <<under_test, obj, storage, arr, offset, acc, calls>>

\* what a parse of the serialized array leaves in res
ArrayParsedBack(by, r) ==
    [op |-> "parse_array", by |-> by, kind |-> r.kind, err |-> r.err,
     consumed |-> r.consumed]

\* serialize of the array, then a parse of the bytes by the parsers there
\* are: JsonObject::parse (parse_json_object) and JsonValue::parse
ParseArrayBack ==
    /\ pc = "build" /\ under_test = "array"
    /\ data' = Serialized
    /\ \/ res' = ArrayParsedBack("JsonObject::parse",
                                 parse(ArrayJsonObject_new(Cap), data', EscapeBuffer(Len(data'))))
       \/ res' = ArrayParsedBack("JsonValue::parse",
                                 JsonValue_parse(data', EscapeBuffer(Len(data'))))
    /\ pc' = "parsed"
    /\ UNCHANGED <<under_test, obj, storage, arr, offset, acc, calls>>

\* what a serialize_resume call leaves in res
ResumeCall(op, k, cap, r) ==
    [op |-> op, k |-> k, cap |-> cap, ok |-> r.ok, n |-> r.n, out |-> r.out]

\* serialize_resume(sink that never fails, k)
ResumeUnbounded ==
    /\ pc = "build"
    /\ \E k \in 0..(Len(Serialized) + 2) :
          res' = ResumeCall("resume", k, 0, Resume(NewSink(FALSE, 0), k))
    /\ pc' = "called"
    /\ UNCHANGED <<under_test, obj, storage, arr, data, offset, acc, calls>>

\* serialize_resume(a byte slice of cap bytes, k)
ResumeBounded ==
    /\ pc = "build"
    /\ \E k \in 0..(Len(Serialized) + 1), cap \in 0..MaxSink :
          res' = ResumeCall("resume_bounded", k, cap, Resume(NewSink(TRUE, cap), k))
    /\ pc' = "called"
    /\ UNCHANGED <<under_test, obj, storage, arr, data, offset, acc, calls>>

\* after a failed call, the next call into a sink that never fails: with the
\* returned count as resume_from, or with the count added to the offset
ResumeNext ==
    /\ pc = "called"
    /\ res.op = "resume_bounded" /\ ~res.ok
    /\ \E how \in {"returned", "added"} :
          LET k == IF how = "returned" THEN res.n ELSE res.k + res.n
              r == Resume(NewSink(FALSE, 0), k)
          IN res' = [op |-> "resume_next", how |-> how, first |-> res, k |-> k,
                     ok |-> r.ok, n |-> r.n, out |-> r.out]
    /\ pc' = "resumed"
    /\ UNCHANGED <<under_test, obj, storage, arr, data, offset, acc, calls>>

\* The loop starts.  serialize_resume does not change the container and the
\* loop does not either, so what each of the loop's calls returns is fixed
\* from here on: calls tabulates serialize_resume(fresh sink of cap bytes, k).
StartLoop ==
    /\ pc = "build"
    /\ pc' = "loop"
    /\ res' = NoCall
    /\ calls' = [k \in 0..Len(Serialized), cap \in 1..MaxSink |->
                    Resume(NewSink(TRUE, cap), k)]
    /\ UNCHANGED <<under_test, obj, storage, arr, data, offset, acc>>

\* one turn of the loop: serialize_resume(fresh sink, offset)
LoopCall ==
    /\ pc = "loop"
    /\ \E cap \in 1..MaxSink :
          LET r == calls[offset, cap]
          IN /\ res' = ResumeCall("loop_call", offset, cap, r)
             /\ acc' = acc \o r.out
             /\ offset' = IF r.ok THEN offset ELSE offset + r.n
             /\ pc' = IF r.ok THEN "done" ELSE "loop"
    /\ UNCHANGED <<under_test, obj, storage, arr, data, calls>>

NextSer ==
    \/ SerPush \/ Format \/ ParseArrayBack \/ ResumeUnbounded \/ ResumeBounded \/ ResumeNext
    \/ StartLoop \/ LoopCall

\* the caller's loop keeps calling until it has seen Ok
SpecSer == InitSer /\ [][NextSer]_vars /\ WF_vars(LoopCall)

\* ---------------------------------------------------- claims under SpecSer

\* C2: with S = serialize(c) of length N and a sink that never fails,
\* serialize_resume(c, k) emits exactly S[k..] and returns Ok(N - k) for
\* 0 <= k <= N, and emits nothing and returns Ok(0) for k > N.
C2_Resumability ==
    res.op = "resume" =>
        LET S == Serialized
            N == Len(S)
        IN /\ res.ok
           /\ res.k <= N => res.out = SubSeq(S, res.k + 1, N) /\ res.n = N - res.k
           /\ res.k > N => res.out = <<>> /\ res.n = 0

\* C2 witness: a resume from the middle of the output of an array that holds
\* a string, and a resume from beyond the end of an object's output
C2_Witness ==
    /\ res.op = "resume"
    /\ \/ /\ under_test = "array" /\ array_len(arr) = Cap
          /\ res.k > 2 /\ res.k < Len(Serialized) /\ Len(res.out) > 2
       \/ under_test = "object" /\ len(obj) > 0 /\ res.k > Len(Serialized)

\* C3 as stated: the value a failed call returns, passed unchanged as
\* resume_from of the next call, continues with the first byte the sink had
\* not accepted: the two calls together emit exactly S[k..].
C3_ReturnedValueIsOffset ==
    res.op = "resume_next" /\ res.how = "returned" =>
        res.first.out \o res.out = SubSeq(Serialized, res.first.k + 1, Len(Serialized))

\* C3 amended: a failed call started at k returns the number n of bytes the
\* sink accepted during the call, and the next call with resume_from = k + n
\* continues with the first byte not yet accepted (none repeated or skipped).
C3_ResumeAtOffsetPlusCount ==
    res.op = "resume_next" /\ res.how = "added" =>
        /\ res.first.n = Len(res.first.out)
        /\ res.k = res.first.k + Len(res.first.out)
        /\ res.ok
        /\ res.first.out \o res.out = SubSeq(Serialized, res.first.k + 1, Len(Serialized))

\* C3 witness: a call started at k > 0 failed after its sink accepted bytes,
\* and the next call, at k + n, emitted the rest
C3_Witness ==
    /\ res.op = "resume_next" /\ res.how = "added"
    /\ res.first.k > 0 /\ res.first.n > 0 /\ Len(res.out) > 0

\* C4: every serialize_resume call, Ok(n) or Err((n, e)), returns the count n
\* of bytes its sink accepted; the loop ends with Ok after finitely many
\* calls, and the bytes its sinks accepted are then serialize(c).
C4_ResumeLoop ==
    /\ [](res.op \in {"resume", "resume_bounded", "loop_call"} => res.n = Len(res.out))
    /\ [](pc = "done" => res.ok /\ acc = Serialized)
    /\ (pc = "loop") ~> (pc = "done")

\* C4 witness: the loop has ended after more than two calls
C4_Witness ==
    /\ pc = "done" /\ offset > 2 * MaxSink /\ acc = Serialized

\* C14: for every object and every array reached by new and pushes, full or
\* not, formatting with Display succeeds and gives the bytes of serialize.
C14_DisplayIsSerialize ==
    res.op = "fmt" => res.ok /\ res.text = data

\* C16: the bytes JsonArray::serialize wrote are accepted by the parser: the
\* parse returns Ok and consumes them all, and the opening square bracket is
\* not reported as InvalidStructure.
C16_ArraysAreParsed ==
    res.op = "parse_array" =>
        /\ res.err # "InvalidStructure"
        /\ res.kind = "Ok" /\ res.consumed = Len(data)

\* =============================================================== SpecRT
\* A caller that builds an object by pushes (pc = "build"), serializes it and
\* parses the bytes back: whole into a fresh object of the same capacity
\* (RoundTrip), whole into storage of exactly enough or one too few fields
\* (ParseCap), or a prefix first and longer prefixes while the parse returns
\* Incomplete, as proxy_json_object does (FeedStart, FeedMore).

\* the fields pushed: "a":9, "k":-120, "s":"q<quote>", "t":true, "":null
RTFieldChoices ==
    { JsonField_new(<<97>>, JNumber(FALSE, <<9>>)),
      JsonField_new(<<107>>, JNumber(TRUE, <<1, 2, 0>>)),
      JsonField_new(<<115>>, JString(<<113, 34>>)),
      JsonField_new(<<116>>, JBoolean(TRUE)),
      JsonField_new(<<>>, JNull) }

InitRT ==
    /\ under_test = "object"
    /\ obj = ArrayJsonObject_new(Cap)
    /\ storage = "array"
    /\ arr = ArrayJsonArray_new(0)
    /\ data = <<>>
    /\ res = NoCall
    /\ offset = 0
    /\ acc = <<>>
    /\ calls = <<>>
    /\ pc = "build"

RTPush ==
    /\ pc = "build"
    /\ \E field \in RTFieldChoices : obj' = push(obj, field).o
    /\ res' = [op |-> "push"]
    /\ UNCHANGED <<under_test, storage, arr, data, offset, acc, calls, pc>>

RTPushField ==
    /\ pc = "build"
    /\ \E field \in RTFieldChoices : obj' = push_field(obj, field.key, field.value).o
    /\ res' = [op |-> "push_field"]
    /\ UNCHANGED <<under_test, storage, arr, data, offset, acc, calls, pc>>

\* JsonObject::parse of d into a fresh object over `fs`, with an escape buffer
\* as long as the data (no string in d is longer)
FreshParse(fs, d) == parse(wrap(fs), d, EscapeBuffer(Len(d)))

\* what a parse of the serialized bytes leaves in res
ParsedBack(op, cap, r) ==
    [op |-> op, cap |-> cap, kind |-> r.kind, err |-> r.err, consumed |-> r.consumed,
     fields |-> IF r.kind = "Ok" THEN fields(r.o).slice ELSE <<>>]

\* serialize, then parse into ArrayJsonObject::<capacity>::new()
RoundTrip ==
    /\ pc = "build"
    /\ data' = Serialized
    /\ res' = ParsedBack("round_trip", capacity(obj),
                         FreshParse(ArrayJsonObject_new(capacity(obj)).fields, data'))
    /\ pc' = "parsed"
    /\ UNCHANGED <<under_test, obj, storage, arr, offset, acc, calls>>

\* serialize, then parse into storage of len() fields or of one fewer: an
\* array ([JsonField; N]) or the slice of a Vec of that length
ParseCap ==
    /\ pc = "build"
    /\ \E c \in {len(obj), len(obj) - 1} :
          /\ c >= 0
          /\ data' = Serialized
          /\ res' = ParsedBack("parse_cap", c,
                               FreshParse([i \in 1..c |-> EMPTY_FIELD], data'))
    /\ pc' = "parsed"
    /\ UNCHANGED <<under_test, obj, storage, arr, offset, acc, calls>>

\* parse the first q bytes of the serialized object, storage and escape
\* buffer fresh
Feed(q) ==
    /\ data' = SubSeq(Serialized, 1, q)
    /\ offset' = q
    /\ res' = ParsedBack("feed", capacity(obj),
                         FreshParse(ArrayJsonObject_new(capacity(obj)).fields, data'))
    /\ pc' = IF res'.kind = "Err" /\ res'.err = "Incomplete" THEN "feeding" ELSE "fed"
    /\ UNCHANGED <<under_test, obj, storage, arr, acc, calls>>

FeedStart ==
    /\ pc = "build"
    /\ \E p \in 0..Len(Serialized) : Feed(p)

\* on Incomplete: more bytes have arrived, parse again from the start
FeedMore ==
    /\ pc = "feeding"
    /\ \E q \in (offset + 1)..Len(Serialized) : Feed(q)

NextRT ==
    \/ RTPush \/ RTPushField \/ RoundTrip \/ ParseCap \/ FeedStart \/ FeedMore

SpecRT == InitRT /\ [][NextRT]_vars

\* ----------------------------------------------------- claims under SpecRT

\* C1: parsing the bytes serialize produced for an object built by pushes,
\* into a fresh object of the same capacity with a large enough escape
\* buffer, succeeds, consumes exactly the serialized length and yields the
\* original fields() in the same order.
C1_RoundTrip ==
    res.op = "round_trip" =>
        /\ res.kind = "Ok"
        /\ res.consumed = Len(Serialized)
        /\ res.fields = fields(obj).slice

\* C5: every parse of a proper prefix of the serialized bytes returns
\* Incomplete, and the parse the feeding loop ends with returns what a single
\* parse of all the bytes returns.
C5_IncrementalEquivalence ==
    res.op = "feed" =>
        IF offset < Len(Serialized)
        THEN res.kind = "Err" /\ res.err = "Incomplete"
        ELSE res = ParsedBack("feed", capacity(obj),
                              FreshParse(ArrayJsonObject_new(capacity(obj)).fields,
                                         Serialized))

\* C8: a well-formed object of N fields parses into storage of capacity N
\* with N fields, and into storage of capacity N - 1 it returns
\* FieldBufferTooSmall.
C8_CapacityBoundary ==
    res.op = "parse_cap" =>
        IF res.cap = len(obj)
        THEN res.kind = "Ok" /\ Len(res.fields) = len(obj)
        ELSE res.kind = "Err" /\ res.err = "FieldBufferTooSmall"

\* ============================================================ SpecParse
\* A caller that holds a byte stream (pc = "input") and parses every prefix
\* of it, the empty one and the whole stream included, each time into fresh
\* storage and with a fresh escape buffer of the same sizes (pc = "parsed");
\* after JsonObject::parse it parses the whole stream once more into the
\* object the first parse left (pc = "reparsed").

\* {"a":-1,"b":"x\n"}    {"t":true,"n":null} after a space    {"k" : 12 }
\* "x\n" between spaces    -12,    false    {"":"","":0} before a space
ParseSeeds ==
    { <<123, 34, 97, 34, 58, 45, 49, 44, 34, 98, 34, 58, 34, 120, 92, 110, 34, 125>>,
      <<123, 34, 34, 58, 34, 34, 44, 34, 34, 58, 48, 125, 32>>,
      <<32, 123, 34, 116, 34, 58, 116, 114, 117, 101, 44, 34, 110, 34, 58, 110, 117,
        108, 108, 125>>,
      <<123, 34, 107, 34, 32, 58, 32, 49, 50, 32, 125>>,
      <<32, 34, 120, 92, 110, 34, 32>>,
      <<45, 49, 50, 44>>,
      <<102, 97, 108, 115, 101>> }

\* the streams: each seed, and each seed with one byte replaced by one of
\* { } " : , space \ 9 - and 0xC8
ParseDocs ==
    ParseSeeds \cup
    UNION { { [seed EXCEPT ![i] = b] :
                i \in 1..Len(seed), b \in {123, 125, 34, 58, 44, 32, 92, 57, 45, 200} } :
            seed \in ParseSeeds }

InitParse ==
    /\ under_test = "object"
    /\ obj = wrap(<<>>)
    /\ storage = "vec"
    /\ arr = ArrayJsonArray_new(0)
    /\ data \in ParseDocs
    /\ res = NoCall
    /\ offset = 0
    /\ acc = <<>>
    /\ calls = <<>>
    /\ pc = "input"

\* what a parse method of JsonObject returned, as the caller sees it
Outcome(r) ==
    [kind |-> r.kind, err |-> r.err, consumed |-> r.consumed,
     fields |-> IF r.kind = "Ok" THEN fields(r.o).slice ELSE <<>>]

\* what parsing every prefix leaves in res: at[p] is what the first p bytes gave
PrefixCall(op, c, e, at) == [op |-> op, c |-> c, e |-> e, at |-> at]

\* JsonObject::parse: fixed field storage, fixed escape buffer
ParseObject ==
    /\ pc = "input"
    /\ \E c \in 0..Cap, e \in {0, MaxEsc} :
          /\ res' = PrefixCall("parse", c, e,
                        [p \in 0..Len(data) |->
                            Outcome(parse(ArrayJsonObject_new(c), SubSeq(data, 1, p),
                                          EscapeBuffer(e)))])
          /\ obj' = parse(ArrayJsonObject_new(c), data, EscapeBuffer(e)).o
    /\ pc' = "parsed"
    /\ UNCHANGED <<under_test, storage, arr, data, offset, acc, calls>>

\* JsonObject::parse_alloc_escape: fixed field storage, growing escape arena
ParseAllocEscape ==
    /\ pc = "input"
    /\ \E c \in 0..Cap :
          /\ res' = PrefixCall("parse_alloc_escape", c, 0,
                        [p \in 0..Len(data) |->
                            Outcome(parse_alloc_escape(ArrayJsonObject_new(c),
                                                       SubSeq(data, 1, p), <<>>))])
          /\ obj' = parse_alloc_escape(ArrayJsonObject_new(c), data, <<>>).o
    /\ pc' = "parsed"
    /\ UNCHANGED <<under_test, storage, arr, data, offset, acc, calls>>

\* JsonObject::parse_alloc: a Vec of c fields that grows, growing escape arena
ParseAlloc ==
    /\ pc = "input"
    /\ \E c \in 0..Cap :
          /\ res' = PrefixCall("parse_alloc", c, 0,
                        [p \in 0..Len(data) |->
                            Outcome(parse_alloc(ArrayJsonObject_new(c),
                                                SubSeq(data, 1, p), <<>>))])
          /\ obj' = parse_alloc(ArrayJsonObject_new(c), data, <<>>).o
    /\ pc' = "parsed"
    /\ UNCHANGED <<under_test, storage, arr, data, offset, acc, calls>>

\* JsonValue::parse
ParseValue ==
    /\ pc = "input"
    /\ \E e \in {0, MaxEsc} :
          res' = PrefixCall("parse_value", 0, e,
                     [p \in 0..Len(data) |->
                         JsonValue_parse(SubSeq(data, 1, p), EscapeBuffer(e))])
    /\ pc' = "parsed"
    /\ UNCHANGED <<under_test, obj, storage, arr, data, offset, acc, calls>>

\* the same slice parsed a second time, into the object the first parse left
ParseAgain ==
    /\ pc = "parsed" /\ res.op = "parse"
    /\ LET r == parse(obj, data, EscapeBuffer(res.e))
       IN /\ res' = [op |-> "parse_again", first |-> res.at[Len(data)],
                     again |-> Outcome(r)]
          /\ obj' = r.o
    /\ pc' = "reparsed"
    /\ UNCHANGED <<under_test, storage, arr, data, offset, acc, calls>>

NextParse ==
    \/ ParseObject \/ ParseAllocEscape \/ ParseAlloc \/ ParseValue \/ ParseAgain

SpecParse == InitParse /\ [][NextParse]_vars

\* -------------------------------------------------- claims under SpecParse

ObjectParseOps == {"parse", "parse_alloc_escape", "parse_alloc"}

\* not Incomplete: Ok, or a failure other than Incomplete
Settled(outcome) ==
    outcome.kind = "Ok" \/ (outcome.kind = "Err" /\ outcome.err # "Incomplete")

\* C6: with the same fresh storage and escape capacities, for prefix lengths
\* p < q of a byte stream, an Ok(n, fields) of the first p bytes is the result
\* of the first q bytes too, and so is a failure other than Incomplete; and
\* parsing the same slice twice gives the same result.
C6_OnlyIncompleteRetriable ==
    /\ res.op \in ObjectParseOps =>
          \A p \in DOMAIN res.at : \A q \in DOMAIN res.at :
              (p < q /\ Settled(res.at[p])) => res.at[q] = res.at[p]
    /\ res.op = "parse_again" => res.again = res.first

\* C6 witness: a stream whose parse was Incomplete for its first bytes, Ok
\* from some prefix on with bytes left over after it, and parsed twice; or a
\* stream with a failure other than Incomplete before its end
C6_Witness ==
    \/ /\ res.op = "parse_again" /\ res.first.kind = "Ok"
       /\ res.first.consumed < Len(data) /\ Len(res.first.fields) > 0
    \/ /\ res.op \in ObjectParseOps
       /\ \E p \in DOMAIN res.at : p > 2 /\ p < Len(data) /\ res.at[p].kind = "Err"
                                   /\ res.at[p].err \notin {"Incomplete", "InvalidStructure"}

\* C7: for every byte slice and every field-storage and escape-buffer
\* capacity, parse_json_object (through the parse methods of JsonObject) and
\* JsonValue::parse return Ok or a JsonParseFailure: none of them panics.
C7_NeverPanics ==
    /\ res.op \in ObjectParseOps \cup {"parse_value"} =>
          \A p \in DOMAIN res.at : res.at[p].kind \in {"Ok", "Err"}
    /\ res.op = "parse_again" => res.again.kind \in {"Ok", "Err"}

\* C7 witness: damaged bytes parsed with no field storage and no escape
\* buffer: the empty slice was Incomplete and a longer prefix failed otherwise
C7_Witness ==
    /\ res.op = "parse" /\ res.c = 0 /\ res.e = 0
    /\ data \notin ParseSeeds
    /\ res.at[0].err = "Incomplete"
    /\ \E p \in DOMAIN res.at : res.at[p].kind = "Err" /\ res.at[p].err # "Incomplete"

\* the well-formed objects among the streams: {"a":-1,"b":"x\n"}, and with
\* whitespace {"t":true,"n":null}, {"k" : 12 } and {"k" : 92 }
WellFormedObjects ==
    { <<123, 34, 97, 34, 58, 45, 49, 44, 34, 98, 34, 58, 34, 120, 92, 110, 34, 125>>,
      <<32, 123, 34, 116, 34, 58, 116, 114, 117, 101, 44, 34, 110, 34, 58, 110, 117,
        108, 108, 125>>,
      <<123, 34, 107, 34, 32, 58, 32, 49, 50, 32, 125>>,
      <<123, 34, 107, 34, 32, 58, 32, 57, 50, 32, 125>> }

\* C17: every slice that ends before the closing bracket of a well-formed
\* object (the empty slice, whitespace only, every proper prefix) parses to
\* Incomplete and to no other failure, whatever the capacities of the field
\* storage and of the escape buffer.
C17_ExhaustedIsIncomplete ==
    (pc = "parsed" /\ res.op \in ObjectParseOps /\ data \in WellFormedObjects) =>
        \A p \in 0..(Len(data) - 1) :
            res.at[p].kind = "Err" /\ res.at[p].err = "Incomplete"

\* ============================================================ SpecValue
\* A caller that parses one terminal value: alone through JsonValue::parse
\* (TerminalValue), or as the value of the member "a" of an object through
\* JsonObject::parse, the object left open after the value or closed by a
\* curly bracket (MemberValue).  data is the text of the value with the
\* byte that follows it.

\* The texts: a sign or none, a digit run, and what follows the value
\* (nothing, space, line feed, comma, the closing brackets, x, a full stop);
\* and the literal texts, followed by nothing, a comma or x.
\* DigitRuns: none, 0, 7, 9, 12, 90, 007, i64::MAX, i64::MAX + 1, the
\* magnitude of i64::MIN plus one, and 2^64.
\* LiteralTexts: true, false and null, whole, cut short, and with one byte
\* replaced by x or by the byte the other literal has there.
\* StringTexts: a quote and up to MaxBody bytes out of quote, backslash,
\* the six other escape bytes / b f n r t, x and the non-ASCII byte 0xC8.
ValueTexts ==
    LET DigitRuns ==
            { <<>>, <<48>>, <<55>>, <<57>>, <<49, 50>>, <<57, 48>>, <<48, 48, 55>>,
              [i \in 1..19 |-> 48 + I64_MAX_MAG[i]],
              [i \in 1..19 |-> 48 + I64_MIN_MAG[i]],
              [i \in 1..19 |-> 48 + (IF i = 19 THEN 9 ELSE I64_MIN_MAG[i])],
              <<49, 56, 52, 52, 54, 55, 52, 52, 48, 55, 51, 55, 48, 57, 53, 53, 49, 54, 49, 54>> }
        LiteralTexts ==
            UNION { { SubSeq(lit, 1, n) : n \in 1..Len(lit) }
                    \cup { [lit EXCEPT ![i] = b] : i \in 2..Len(lit), b \in {120, 101, 117} }
                    \cup { SubSeq([lit EXCEPT ![2] = 120], 1, n) : n \in 2..3 } :
                    lit \in {LIT_TRUE, LIT_FALSE, LIT_NULL} }
    IN { sign \o run \o follower :
            sign \in {<<>>, <<Ch.minus>>}, run \in DigitRuns,
            follower \in { <<>>, <<32>>, <<10>>, <<44>>, <<125>>, <<93>>, <<120>>, <<46>> } }
       \cup { text \o follower : text \in LiteralTexts, follower \in {<<>>, <<44>>, <<120>>} }
       \cup { <<Ch.quote>> \o body :
                body \in SeqsUpTo({34, 92, 47, 98, 102, 110, 114, 116, 120, 200}, MaxBody) }

InitValue ==
    /\ under_test = "object"
    /\ obj = ArrayJsonObject_new(1)
    /\ storage = "array"
    /\ arr = ArrayJsonArray_new(0)
    /\ data \in ValueTexts
    /\ res = NoCall
    /\ offset = 0
    /\ acc = <<>>
    /\ calls = <<>>
    /\ pc = "input"

\* JsonValue::parse(data, &mut [0_u8; MaxEsc])
TerminalValue ==
    /\ pc = "input"
    /\ res' = [op |-> "value", text |-> data, r |-> JsonValue_parse(data, EscapeBuffer(MaxEsc))]
    /\ pc' = "parsed"
    /\ UNCHANGED <<under_test, obj, storage, arr, data, offset, acc, calls>>

\* {"a":
MEMBER_A == <<123, 34, 97, 34, 58>>

\* what a parse of the member leaves: the object, and in res the text of the
\* value as the parser saw it and what the call returned
MemberCall(text, r) ==
    /\ obj' = r.o
    /\ res' = [op |-> "member", text |-> text,
               r |-> [kind |-> r.kind, err |-> r.err, consumed |-> r.consumed]]

\* JsonObject::parse of {"a": followed by the value, and by } when closed
MemberValue ==
    /\ pc = "input"
    /\ \E closed \in BOOLEAN :
          \E text \in { IF closed THEN data \o <<Ch.rcurly>> ELSE data } :
              MemberCall(text, parse(obj, MEMBER_A \o text, EscapeBuffer(MaxEsc)))
    /\ pc' = "parsed"
    /\ UNCHANGED <<under_test, storage, arr, data, offset, acc, calls>>

NextValue == TerminalValue \/ MemberValue

SpecValue == InitValue /\ [][NextValue]_vars

\* -------------------------------------------------- claims under SpecValue

\* What the text t of a value is, read as a number: whether it starts with a
\* minus sign, how many digits follow, their magnitude without leading
\* zeros, whether whitespace, a comma or the closing bracket of the object
\* follows them, and whether the value fits an i64.
IsDigit(b) == b \in 48..57
HasMinus(t) == Len(t) > 0 /\ t[1] = 45
RunStart(t) == IF HasMinus(t) THEN 1 ELSE 0
RunLen(t) ==
    CHOOSE n \in 0..(Len(t) - RunStart(t)) :
        /\ \A i \in 1..n : IsDigit(t[RunStart(t) + i])
        /\ RunStart(t) + n = Len(t) \/ ~IsDigit(t[RunStart(t) + n + 1])
RunEnd(t) == RunStart(t) + RunLen(t)
RunMag(t) == strip_zeros([i \in 1..RunLen(t) |-> t[RunStart(t) + i] - 48])
AtEnd(t) == RunEnd(t) = Len(t)
Terminated(t) == ~AtEnd(t) /\ t[RunEnd(t) + 1] \in {32, 9, 10, 12, 13, 44, 125}
InRange(t) == ~MagGreater(RunMag(t), IF HasMinus(t) THEN I64_MIN_MAG ELSE I64_MAX_MAG)
ExpectedNumber(t) == JNumber(HasMinus(t) /\ RunMag(t) # <<0>>, RunMag(t))
IsNumberText(t) == Len(t) > 0 /\ (HasMinus(t) \/ IsDigit(t[1]))

\* C18: a value that is an optional minus sign and one or more digits, the
\* first of them any of 0 to 9, that fits an i64 and is followed by
\* whitespace, a comma or the closing bracket, is parsed as Number(n), n
\* the decimal value with its sign: JsonValue::parse returns it and the index
\* after the last digit, JsonObject::parse stores it as the member's value.
C18_NumberDispatch ==
    (/\ pc = "parsed" /\ IsNumberText(res.text)
     /\ RunLen(res.text) >= 1 /\ Terminated(res.text) /\ InRange(res.text)) =>
        IF res.op = "value"
        THEN /\ res.r.kind = "Ok"
             /\ res.r.value = ExpectedNumber(res.text)
             /\ res.r.consumed = RunEnd(res.text)
        ELSE /\ res.r.kind = "Ok" \/ res.r.err = "Incomplete"
             /\ res.r.kind = "Ok" => len(obj) = 1
             /\ obj.fields[1] = JsonField_new(<<97>>, ExpectedNumber(res.text))

\* the text is the least or the greatest i64
IsBoundary(t) ==
    RunMag(t) = (IF HasMinus(t) THEN I64_MIN_MAG ELSE I64_MAX_MAG)

\* C19: a minus sign directly followed by whitespace, a comma or the closing
\* bracket gives InvalidNumericField; digits followed by any other byte give
\* InvalidNumericField; well-terminated digits whose value does not fit an
\* i64 give NumberParseError, while i64::MIN and i64::MAX are parsed; digits
\* that reach the end of the input give Incomplete.
C19_NumericFailures ==
    (pc = "parsed" /\ IsNumberText(res.text)) =>
        /\ (HasMinus(res.text) /\ RunLen(res.text) = 0 /\ Terminated(res.text)) =>
               res.r.kind = "Err" /\ res.r.err = "InvalidNumericField"
        /\ (RunLen(res.text) >= 1 /\ ~AtEnd(res.text) /\ ~Terminated(res.text)) =>
               res.r.kind = "Err" /\ res.r.err = "InvalidNumericField"
        /\ (RunLen(res.text) >= 1 /\ Terminated(res.text) /\ ~InRange(res.text)) =>
               res.r.kind = "Err" /\ res.r.err = "NumberParseError"
        /\ (RunLen(res.text) >= 1 /\ Terminated(res.text) /\ IsBoundary(res.text)) =>
               IF res.op = "value"
               THEN res.r.kind = "Ok" /\ res.r.value = ExpectedNumber(res.text)
               ELSE obj.fields[1] = JsonField_new(<<97>>, ExpectedNumber(res.text))
        /\ (RunLen(res.text) >= 1 /\ AtEnd(res.text)) =>
               res.r.kind = "Err" /\ res.r.err = "Incomplete"

\* What the text t of a value is, read as a literal: the literal its
\* first byte selects (true, false or null), and whether a byte of t differs from the literal's.
IsLiteralText(t) == Len(t) > 0 /\ t[1] \in {116, 102}
LiteralOf(t) == IF t[1] = 116 THEN LIT_TRUE ELSE IF t[1] = 110 THEN LIT_NULL ELSE LIT_FALSE
Mismatch(t) == \E i \in 1..Min(Len(t), Len(LiteralOf(t))) : t[i] # LiteralOf(t)[i]

\* C20: a value that starts with t (with f) is compared byte by byte with
\* true (false): the first byte that differs gives InvalidBooleanField; the
\* end of the input while every byte so far agrees gives Incomplete; a full
\* match gives Boolean(true) (Boolean(false)), 4 (5) bytes further on.
C20_BooleanLiterals ==
    (pc = "parsed" /\ IsLiteralText(res.text)) =>
        IF Mismatch(res.text)
        THEN res.r.kind = "Err" /\ res.r.err = "InvalidBooleanField"
        ELSE IF Len(res.text) < Len(LiteralOf(res.text))
        THEN res.r.kind = "Err" /\ res.r.err = "Incomplete"
        ELSE IF res.op = "value"
        THEN /\ res.r.kind = "Ok"
             /\ res.r.value = JBoolean(res.text[1] = 116)
             /\ res.r.consumed = Len(LiteralOf(res.text))
        ELSE /\ obj.fields[1] = JsonField_new(<<97>>, JBoolean(res.text[1] = 116))
             /\ res.text = LiteralOf(res.text) \o <<Ch.rcurly>> =>
                    /\ res.r.kind = "Ok"
                    /\ res.r.consumed = Len(MEMBER_A) + Len(LiteralOf(res.text)) + 1

\* C20 witness: false and a comma have been parsed as the value of a member
\* of an object that is still open
C20_Witness ==
    /\ pc = "parsed" /\ res.op = "member" /\ res.text = LIT_FALSE \o <<44>>
    /\ res.r.err = "Incomplete"
    /\ obj.fields[1].value = JBoolean(FALSE)

\* C21: a value that starts with n is compared byte by byte with null: the
\* first byte that differs gives InvalidNullField (not a boolean failure);
\* the end of the input while every byte so far agrees gives Incomplete; a
\* full match gives Null, 4 bytes further on.
C21_NullLiteral ==
    (pc = "parsed" /\ Len(res.text) > 0 /\ res.text[1] = Ch.n) =>
        IF Mismatch(res.text)
        THEN res.r.kind = "Err" /\ res.r.err = "InvalidNullField"
        ELSE IF Len(res.text) < Len(LIT_NULL)
        THEN res.r.kind = "Err" /\ res.r.err = "Incomplete"
        ELSE IF res.op = "value"
        THEN res.r.kind = "Ok" /\ res.r.value = JNull /\ res.r.consumed = Len(LIT_NULL)
        ELSE /\ obj.fields[1] = JsonField_new(<<97>>, JNull)
             /\ res.text = LIT_NULL \o <<Ch.rcurly>> => res.r.kind = "Ok"

\* What the text t of a value is, read as a quoted string (t[1] the opening
\* quote): a byte is escaped when an odd number of backslashes runs up to
\* it; the string stops at the first unescaped quote, at the first byte of
\* 0x80 or more, or at the first escaped byte that is not one of the eight;
\* the bytes kept are those before the stop other than the escaping
\* backslashes, each escaped one replaced by the character it stands for.
IsStringText(t) == Len(t) > 0 /\ t[1] = 34
BackslashRun(t, i) ==
    CHOOSE n \in 0..(i - 2) :
        /\ \A k \in 1..n : t[i - k] = 92
        /\ n = i - 2 \/ t[i - n - 1] # 92
StrEscaped(t, i) == BackslashRun(t, i) % 2 = 1
EscapeTable == [c \in {34, 92, 47, 98, 102, 110, 114, 116} |->
    CASE c = 98 -> 8 [] c = 102 -> 12 [] c = 110 -> 10 [] c = 114 -> 13 [] c = 116 -> 9
      [] OTHER -> c]
StrStops(t) ==
    { i \in 2..Len(t) : \/ t[i] >= 128
                        \/ StrEscaped(t, i) /\ t[i] \notin DOMAIN EscapeTable
                        \/ ~StrEscaped(t, i) /\ t[i] = 34 }
StrStop(t) == CHOOSE i \in StrStops(t) : \A j \in StrStops(t) : i <= j
StrKept(t) ==
    { i \in 2..(IF StrStops(t) = {} THEN Len(t) ELSE StrStop(t) - 1) :
        StrEscaped(t, i) \/ t[i] # 92 }
StrText(t) ==
    [k \in 1..Cardinality(StrKept(t)) |->
        LET i == CHOOSE j \in StrKept(t) : Cardinality({ m \in StrKept(t) : m < j }) = k - 1
        IN IF StrEscaped(t, i) THEN EscapeTable[t[i]] ELSE t[i]]
\* the escape buffer holds the bytes kept (after the key "a" of the member)
StrFits(op, t) == Cardinality(StrKept(t)) + (IF op = "member" THEN 1 ELSE 0) <= MaxEsc

InitEsc ==
    /\ under_test = "object"
    /\ obj = ArrayJsonObject_new(1)
    /\ storage = "array"
    /\ arr = ArrayJsonArray_new(0)
    /\ data = <<>>
    /\ res = NoCall
    /\ offset = 0
    /\ acc = <<>>
    /\ calls = <<>>
    /\ pc = "build"

EscPush ==
    /\ pc = "build"
    /\ len(obj) = 0
    /\ \E s \in SeqsUpTo({34, 92, 47, 8, 12, 10, 13, 9, 120, 110, 1}, MaxBody) :
          obj' = push_field(obj, s, JString(s)).o
    /\ res' = [op |-> "push_field"]
    /\ UNCHANGED <<under_test, storage, arr, data, offset, acc, calls, pc>>

NextEsc == EscPush \/ RoundTrip

SpecEsc == InitEsc /\ [][NextEsc]_vars

\* ---------------------------------------------------- claims under SpecEsc

\* the characters the escape table names
TableChars == {34, 92, 47, 8, 12, 10, 13, 9}

\* the escaped text E of the one field, standing twice in {"E":"E"}, with the
\* quotes around it
EscapedQuoted == SubSeq(data, 2, 3 + (Len(data) - 7) \div 2)

\* C23: the serializer writes each of the eight table characters as a
\* backslash and one byte that the parser maps back to that character, and
\* it escapes no other character; the parser accepts no other escape byte;
\* so an ASCII text serialized and parsed is the same text, and its escaped
\* form has no quote and no backslash outside an escape pair.
C23_EscapeTable ==
    /\ \A c \in 0..127 :
          /\ get_required_escape_sequence(c) # <<>> <=> c \in TableChars
          /\ c \in TableChars =>
                /\ Len(get_required_escape_sequence(c)) = 2
                /\ get_required_escape_sequence(c)[1] = 92
                /\ get_required_unescaped_char(get_required_escape_sequence(c)[2]) = c
          /\ get_required_unescaped_char(c) # -1 <=> c \in DOMAIN EscapeTable
    /\ (pc = "parsed" /\ res.op = "round_trip" /\ len(obj) = 1) =>
          /\ Len(data) = 7 + 2 * (Len(obj.fields[1].key)
                    + Cardinality({ i \in 1..Len(obj.fields[1].key) :
                                      obj.fields[1].key[i] \in TableChars }))
          /\ StrStops(EscapedQuoted) = {Len(EscapedQuoted)}
          /\ ~StrEscaped(EscapedQuoted, Len(EscapedQuoted))
          /\ StrText(EscapedQuoted) = obj.fields[1].key
          /\ res.kind = "Ok" /\ res.consumed = Len(data)
          /\ res.fields = <<obj.fields[1]>>

\* C23 witness: the text quote, line feed, n has gone round as \" \n n
C23_Witness ==
    /\ pc = "parsed" /\ res.op = "round_trip" /\ res.kind = "Ok"
    /\ data = <<123, 34, 92, 34, 92, 110, 110, 34, 58, 34, 92, 34, 92, 110, 110, 34, 125>>
    /\ res.fields = <<JsonField_new(<<34, 10, 110>>, JString(<<34, 10, 110>>))>>

\* ------------------------------------------------ the grammar of an object
\* The one-level object grammar, read off a text t from byte i on (1-based)
\* without the parser: st is what is expected next ("start" the opening
\* bracket, "open" the first key or the closing bracket, "colon", "value",
\* "after" a comma or the closing bracket, "comma" the key after a comma),
\* ms the members read so far, strs the strings closed so far (keys and
\* string values, in input order).  The result says whether the text holds
\* an object ("accept", `at` its length up to the closing bracket, trailing
\* set when the closing bracket directly follows a comma), breaks the
\* grammar at byte `at` ("reject", why) or ends too early ("exhausted").
Scanned(kind, why, at, ms, strs) ==
    [kind |-> kind, why |-> why, at |-> at, ms |-> ms, strs |-> strs]

RECURSIVE Scan(_, _, _, _, _)
ScanString(t, i, st, ms, strs, rest) ==
    IF StrStops(rest) = {} THEN Scanned("exhausted", "string", i, ms, strs)
    ELSE IF rest[StrStop(rest)] # 34 \/ StrEscaped(rest, StrStop(rest))
    THEN Scanned("reject", "string", i + StrStop(rest) - 1, ms, strs)
    ELSE IF st = "value"
    THEN Scan(t, i + StrStop(rest), "after",
              Append(ms, JsonField_new(strs[Len(strs)], JString(StrText(rest)))),
              Append(strs, StrText(rest)))
    ELSE Scan(t, i + StrStop(rest), "colon", ms, Append(strs, StrText(rest)))

ScanLiteral(t, i, ms, strs, rest) ==
    IF Mismatch(rest) THEN Scanned("reject", "literal", i, ms, strs)
    ELSE IF Len(rest) < Len(LiteralOf(rest)) THEN Scanned("exhausted", "literal", i, ms, strs)
    ELSE Scan(t, i + Len(LiteralOf(rest)), "after",
              Append(ms, JsonField_new(strs[Len(strs)],
                                       IF rest[1] = 110 THEN JNull ELSE JBoolean(rest[1] = 116))),
              strs)

ScanNumber(t, i, ms, strs, rest) ==
    IF AtEnd(rest) THEN Scanned("exhausted", "number", i, ms, strs)
    ELSE IF RunLen(rest) = 0 \/ ~Terminated(rest) THEN Scanned("reject", "number", i, ms, strs)
    ELSE IF ~InRange(rest) THEN Scanned("reject", "range", i, ms, strs)
    ELSE Scan(t, i + RunEnd(rest), "after",
              Append(ms, JsonField_new(strs[Len(strs)], ExpectedNumber(rest))), strs)

Scan(t, i, st, ms, strs) ==
    IF i > Len(t) THEN Scanned("exhausted", st, i, ms, strs)
    ELSE IF t[i] \in {32, 9, 10, 12, 13} THEN Scan(t, i + 1, st, ms, strs)
    ELSE CASE st = "start" ->
                IF t[i] = 123 THEN Scan(t, i + 1, "open", ms, strs)
                ELSE Scanned("reject", st, i, ms, strs)
           [] st \in {"open", "comma"} ->
                IF t[i] = 125 THEN Scanned("accept", st, i, ms, strs)
                ELSE IF t[i] = 34 THEN ScanString(t, i, st, ms, strs, SubSeq(t, i, Len(t)))
                ELSE Scanned("reject", st, i, ms, strs)
           [] st = "colon" ->
                IF t[i] = 58 THEN Scan(t, i + 1, "value", ms, strs)
                ELSE Scanned("reject", st, i, ms, strs)
           [] st = "value" ->
                IF t[i] = 34 THEN ScanString(t, i, st, ms, strs, SubSeq(t, i, Len(t)))
                ELSE IF t[i] \in {116, 102, 110}
                THEN ScanLiteral(t, i, ms, strs, SubSeq(t, i, Len(t)))
                ELSE IF t[i] = 45 \/ IsDigit(t[i])
                THEN ScanNumber(t, i, ms, strs, SubSeq(t, i, Len(t)))
                ELSE Scanned("reject", st, i, ms, strs)
           [] st = "after" ->
                IF t[i] = 44 THEN Scan(t, i + 1, "comma", ms, strs)
                ELSE IF t[i] = 125 THEN Scanned("accept", st, i, ms, strs)
                ELSE Scanned("reject", st, i, ms, strs)

\* the grammar's reading of the whole text
Grammar(t) == Scan(t, 1, "start", <<>>, <<>>)

\* ------------------------------------- claims under SpecParse (the grammar)

\* the grammar breaks at a byte that is not the opening bracket, not the
\* colon after a key, not the first byte of a value, or not the comma (or
\* the closing bracket) after a value
StructureBreak(g) == g.kind = "reject" /\ g.why \in {"start", "colon", "value", "after"}

\* the bytes the strings take in an escape buffer
RECURSIVE StrBytes(_)
StrBytes(strs) == IF strs = <<>> THEN 0 ELSE Len(Head(strs)) + StrBytes(Tail(strs))

\* the call's field storage holds the members g has and its escape buffer
\* their strings: parse has c fields and e bytes, parse_alloc_escape c
\* fields and an arena, parse_alloc a Vec and an arena
Fits(call, g) ==
    /\ call.op = "parse_alloc" \/ Len(g.ms) <= call.c
    /\ call.op # "parse" \/ StrBytes(g.strs) <= call.e

\* C24: after optional whitespace, a first byte other than the opening
\* bracket, a byte other than the colon after a key, a byte that starts no
\* value, and a byte other than the comma between two entries each give
\* InvalidStructure (the field storage and the escape buffer holding what
\* was read before that byte).
C24_StructuralFailures ==
    (/\ pc = "parsed" /\ res.op \in ObjectParseOps
     /\ StructureBreak(Grammar(data)) /\ Fits(res, Grammar(data))) =>
        res.at[Len(data)].kind = "Err" /\ res.at[Len(data)].err = "InvalidStructure"

\* C24 witness: {"a":-1 "b":"x\n"}, a space where the comma was, has been
\* parsed into storage of Cap fields with an escape buffer of MaxEsc bytes
C24_Witness ==
    /\ pc = "parsed" /\ res.op = "parse" /\ res.c = Cap /\ res.e = MaxEsc
    /\ data = <<123, 34, 97, 34, 58, 45, 49, 32, 34, 98, 34, 58, 34, 120, 92, 110, 34, 125>>
    /\ res.at[Len(data)].err = "InvalidStructure"
    /\ Grammar(data).why = "after"

\* C25: when a parse returns Ok, the count of bytes consumed is that of the
\* text up to and including the closing bracket, whitespace counted, and at
\* most the length of the slice; the bytes after the closing bracket change
\* nothing ({} gives 2 and no field whatever follows); the fields stored
\* are the members of the input in input order, equal keys kept apart.
C25_SuccessResult ==
    (/\ pc = "parsed" /\ res.op \in ObjectParseOps
     /\ res.at[Len(data)].kind = "Ok") =>
        /\ Grammar(data).kind = "accept"
        /\ res.at[Len(data)].consumed = Grammar(data).at
        /\ res.at[Len(data)].consumed <= Len(data)
        /\ data[res.at[Len(data)].consumed] = 125
        /\ res.at[Len(data)].fields = Grammar(data).ms
        /\ \A q \in DOMAIN res.at :
               IF q >= res.at[Len(data)].consumed THEN res.at[q] = res.at[Len(data)]
               ELSE res.at[q].kind # "Ok"
        /\ SubSeq(data, 1, 2) = <<123, 125>> =>
               res.at[Len(data)].consumed = 2 /\ res.at[Len(data)].fields = <<>>

\* C25 witness: {"":"","":0} and a space has been parsed to two fields of
\* the same key, 12 bytes consumed
C25_Witness ==
    /\ pc = "parsed" /\ res.op = "parse" /\ res.at[Len(data)].kind = "Ok"
    /\ Len(data) = 13 /\ res.at[Len(data)].consumed = 12
    /\ res.at[Len(data)].fields =
           <<JsonField_new(<<>>, JString(<<>>)), JsonField_new(<<>>, JNumber(FALSE, <<0>>))>>

\* the text holds a well-formed object: the grammar accepts it and no comma
\* directly precedes the closing bracket
WellFormed(g) == g.kind = "accept" /\ g.why # "comma"

\* C26: a well-formed object parsed by JsonObject::parse into enough field
\* storage and an escape buffer of e bytes succeeds if and only if the
\* unescaped keys and string values take at most e bytes together, and
\* returns EscapeBufferTooSmall otherwise; on success every key and string
\* value read back is the text that was parsed (none overwritten by a later
\* one).
C26_EscapeBufferAccounting ==
    (/\ pc = "parsed" /\ res.op = "parse"
     /\ WellFormed(Grammar(data)) /\ Len(Grammar(data).ms) <= res.c) =>
        IF StrBytes(Grammar(data).strs) <= res.e
        THEN /\ res.at[Len(data)].kind = "Ok"
             /\ res.at[Len(data)].fields = Grammar(data).ms
        ELSE /\ res.at[Len(data)].kind = "Err"
             /\ res.at[Len(data)].err = "EscapeBufferTooSmall"

\* ------------------------------------ claims under SpecSer (the output form)

\* The text a container is to be written as, from the claim: a string
\* between quotes, each table character as a backslash and its escape byte,
\* other ASCII characters as they are, the rest left out; a number as a
\* minus sign when negative and its digits; true, false, null; entries
\* separated by commas, an object's entry as key, colon, value.
RECURSIVE FormChars(_)
FormChars(s) ==
    IF s = <<>> THEN <<>>
    ELSE (IF Head(s) >= 128 THEN <<>>
          ELSE IF Head(s) \in TableChars
          THEN <<92, CHOOSE x \in DOMAIN EscapeTable : EscapeTable[x] = Head(s)>>
          ELSE <<Head(s)>>) \o FormChars(Tail(s))
FormString(s) == <<34>> \o FormChars(s) \o <<34>>
FormValue(v) ==
    CASE v.tag = "String" -> FormString(v.str)
      [] v.tag = "Number" ->
            (IF v.neg THEN <<45>> ELSE <<>>) \o [i \in 1..Len(v.mag) |-> 48 + v.mag[i]]
      [] v.tag = "Boolean" -> IF v.bool THEN <<116, 114, 117, 101>> ELSE <<102, 97, 108, 115, 101>>
      [] v.tag = "Null" -> <<110, 117, 108, 108>>
RECURSIVE FormEntries(_, _)
FormEntries(es, first) ==
    IF es = <<>> THEN <<>>
    ELSE (IF first THEN <<>> ELSE <<44>>)
         \o (IF under_test = "object"
             THEN FormString(Head(es).key) \o <<58>> \o FormValue(Head(es).value)
             ELSE FormValue(Head(es)))
         \o FormEntries(Tail(es), FALSE)
Form ==
    IF under_test = "object"
    THEN <<123>> \o FormEntries(SubSeq(obj.fields, 1, obj.num_fields), TRUE) \o <<125>>
    ELSE <<91>> \o FormEntries(SubSeq(arr.values, 1, arr.num_values), TRUE) \o <<93>>

\* C27: serialize writes the opening bracket, the first len() entries in
\* order with a comma before each but the first, an object's entry as its
\* quoted escaped key, a colon and the value, and the closing bracket, with
\* no whitespace; the count returned is the number of bytes written.
C27_SerializedForm ==
    (res.op = "resume" /\ res.k = 0) =>
        res.ok /\ res.out = Form /\ res.n = Len(res.out)

\* C27 witness: an object of two fields, one with a non-ASCII character in
\* its key, and a full array have been serialized
C27_Witness ==
    /\ res.op = "resume" /\ res.k = 0
    /\ \/ /\ under_test = "object" /\ len(obj) = 2
          /\ \E i \in 1..2 : Len(obj.fields[i].key) > 0 /\ obj.fields[i].key[1] >= 128
       \/ under_test = "array" /\ array_len(arr) = Cap /\ Len(res.out) > 8

\* ============================================================ SpecArena
\* A caller that keeps one escape arena (AllocEscapeBuffer, acc) and one
\* object and parses into them up to MaxCalls times, each time the bytes of
\* its stream that have arrived so far: with parse_alloc_escape into
\* ArrayJsonObject::<1> (storage = "array") or with parse_alloc into a Vec
\* (storage = "vec").  The streams: {"a":-1,"b":"x\n"}, {"k" : 92 } and
\* {"a":"b"x.

InitArena ==
    /\ under_test = "object"
    /\ storage \in {"array", "vec"}
    /\ obj = (IF storage = "array" THEN ArrayJsonObject_new(1) ELSE wrap(<<>>))
    /\ arr = ArrayJsonArray_new(0)
    /\ data \in { <<123, 34, 97, 34, 58, 45, 49, 44, 34, 98, 34, 58, 34, 120, 92, 110, 34, 125>>,
                  <<123, 34, 107, 34, 32, 58, 32, 57, 50, 32, 125>>,
                  <<123, 34, 97, 34, 58, 34, 98, 34, 120>> }
    /\ res = NoCall
    /\ offset = 0
    /\ acc = <<>>
    /\ calls = <<>>
    /\ pc = "input"

\* what a call leaves: the object, the arena, and in res the bytes parsed,
\* the arena as it was before the call and what the call returned
ArenaCall(text, r) ==
    /\ obj' = r.o
    /\ acc' = r.escape
    /\ res' = [op |-> "arena", text |-> text, before |-> acc, kind |-> r.kind, err |-> r.err]
    /\ offset' = offset + 1
    /\ UNCHANGED <<under_test, storage, arr, data, calls, pc>>

ArenaParseAllocEscape ==
    /\ storage = "array" /\ offset < MaxCalls
    /\ \E p \in 0..Len(data) :
          ArenaCall(SubSeq(data, 1, p), parse_alloc_escape(obj, SubSeq(data, 1, p), acc))

ArenaParseAlloc ==
    /\ storage = "vec" /\ offset < MaxCalls
    /\ \E p \in 0..Len(data) :
          ArenaCall(SubSeq(data, 1, p), parse_alloc(obj, SubSeq(data, 1, p), acc))

NextArena == ArenaParseAllocEscape \/ ArenaParseAlloc

SpecArena == InitArena /\ [][NextArena]_vars

\* -------------------------------------------------- claims under SpecArena

\* C28: a call appends to the arena and changes nothing it held: the arena
\* after the call is the arena before it followed by the strings whose
\* closing quote the call reached, one entry each, keys and string values
\* in input order (all the closed strings of the bytes parsed when the call
\* returned Ok or Incomplete, the first of them when it failed before the
\* end); a string that was cut off is not appended.
C28_ArenaAppendOnly ==
    res.op = "arena" =>
        /\ Len(acc) >= Len(res.before)
        /\ SubSeq(acc, 1, Len(res.before)) = res.before
        /\ Len(acc) - Len(res.before) <= Len(Grammar(res.text).strs)
        /\ SubSeq(acc, Len(res.before) + 1, Len(acc))
               = SubSeq(Grammar(res.text).strs, 1, Len(acc) - Len(res.before))
        /\ (res.kind = "Ok" \/ res.err = "Incomplete") =>
               Len(acc) - Len(res.before) = Len(Grammar(res.text).strs)

\* C28 witness: a second call on an arena that held strings already has
\* appended two strings and failed with the third cut off
C28_Witness ==
    /\ res.op = "arena" /\ Len(res.before) > 0 /\ Len(acc) = Len(res.before) + 2
    /\ res.err = "Incomplete"
    /\ res.text = <<123, 34, 97, 34, 58, 45, 49, 44, 34, 98, 34, 58, 34, 120>>

\* --------------------------------------- claims under Spec (a failed parse)

\* C29: when parse, parse_alloc_fields or parse_alloc returns a
\* JsonParseFailure, Incomplete after some fields were scanned included,
\* len() and the contents of fields() are what they were before the call.
C29_FailedParseLeavesContainer ==
    (res.op \in {"parse", "parse_alloc_fields", "parse_alloc"} /\ res.kind = "Err") =>
        /\ len(obj) = len(res.before)
        /\ fields(obj).slice = fields(res.before).slice

\* ------------------------------- claims under SpecParse (what is accepted)

\* C30: whenever a parse returns Ok, the bytes consumed are a well-formed
\* one-level object: members of a quoted key, a colon and one terminal
\* value, one comma between two members, none before the first member and
\* none after the last.
C30_AcceptsOnlyTheGrammar ==
    (/\ pc = "parsed" /\ res.op \in ObjectParseOps
     /\ res.at[Len(data)].kind = "Ok") =>
        /\ WellFormed(Grammar(data))
        /\ Grammar(data).at = res.at[Len(data)].consumed

====
